---- MODULE Spec2Model ----
(***************************************************************************)
(* Heat-load model of heaty: the entity hierarchy                          *)
(* Building -> BuildingEntity -> VentilationZone -> HeatedSpace ->         *)
(* BuildingElement (heaty/model/building.py, building_elements.py), the    *)
(* replace-capable factories and the Controller operations                 *)
(* (heaty/gui/controller.py).                                              *)
(*                                                                         *)
(* Python objects live in heaps (sequences indexed by object id); a        *)
(* python dict that the factories hand from an old instance to a new one   *)
(* is a heap object of its own, so that sharing is visible.                *)
(*                                                                         *)
(* Numbers are exact rationals <<n, d>> with d > 0 in lowest terms; the    *)
(* pair <<0, 0>> stands for python's None.  Quantity arithmetic is done on *)
(* magnitudes: the unit bookkeeping of the third-party pint package is not *)
(* part of the repository.  Quantity.__call__ is modelled by what it does  *)
(* to the magnitude: it formats with 6 significant digits.                 *)
(***************************************************************************)
EXTENDS Integers, Sequences, FiniteSets, TLC

(***************************************************************************)
(* Values.  A number is a rational <<n, d>>, d > 0, in lowest terms (python *)
(* float arithmetic without rounding error).  <<0, 0>> is python's None.   *)
(* The outcome of an expression that raised is one of the two exception    *)
(* values; an operator applied to an exception value yields that value     *)
(* (the exception propagates), in python's left-to-right evaluation order. *)
(***************************************************************************)
None == <<0, 0>>

TypeError == <<1, 0>>

ZeroDivisionError == <<2, 0>>

KeyError == <<3, 0>>

IsNone(x) == x = None

IsExc(x) == x[2] = 0 /\ x[1] # 0

IsNum(x) == x[2] > 0

Abs(i) == IF i < 0 THEN -i ELSE i

RECURSIVE Gcd(_, _)
Gcd(a, b) == IF b = 0 THEN a ELSE Gcd(b, a % b)

Rat(n, d) ==
    LET g == Gcd(Abs(n), Abs(d))
        s == IF d < 0 THEN -1 ELSE 1
    IN  IF n = 0 THEN <<0, 1>> ELSE <<s * (n \div g), s * (d \div g)>>

Num(i) == <<i, 1>>

Zero == <<0, 1>>

One == <<1, 1>>

IsZero(x) == x = Zero

\* the outcome of a binary operator on operands that are not both numbers:
\* the exception of the first operand that raised, else TypeError (None used
\* as a number)
Bad(x, y) == IF IsExc(x) THEN x ELSE IF IsExc(y) THEN y ELSE TypeError

RAdd(x, y) ==
    IF IsNum(x) /\ IsNum(y)
    THEN LET g == Gcd(x[2], y[2])
         IN  Rat(x[1] * (y[2] \div g) + y[1] * (x[2] \div g), (x[2] \div g) * y[2])
    ELSE Bad(x, y)

RSub(x, y) == IF IsNum(y) THEN RAdd(x, <<-y[1], y[2]>>) ELSE Bad(x, y)

RMul(x, y) ==
    IF IsNum(x) /\ IsNum(y)
    THEN LET g == Gcd(Abs(x[1]), y[2])
             h == Gcd(Abs(y[1]), x[2])
         IN  IF x[1] = 0 \/ y[1] = 0 THEN Zero
             ELSE <<(x[1] \div g) * (y[1] \div h), (x[2] \div h) * (y[2] \div g)>>
    ELSE Bad(x, y)

RDiv(x, y) ==
    IF IsNum(x) /\ IsNum(y)
    THEN IF y[1] = 0 THEN ZeroDivisionError
         ELSE RMul(x, IF y[1] < 0 THEN <<-y[2], -y[1]>> ELSE <<y[2], y[1]>>)
    ELSE Bad(x, y)

\* x < y on numbers
Less(x, y) == RSub(x, y)[1] < 0

\* python's max(x, y) and min(x, y)
RMax(x, y) ==
    IF IsNum(x) /\ IsNum(y) THEN (IF Less(x, y) THEN y ELSE x) ELSE Bad(x, y)

RMin(x, y) ==
    IF IsNum(x) /\ IsNum(y) THEN (IF Less(y, x) THEN y ELSE x) ELSE Bad(x, y)

RECURSIVE RPowNat(_, _)
RPowNat(x, k) == IF k = 0 THEN One ELSE RMul(x, RPowNat(x, k - 1))

\* x ** y for a natural exponent y (the exponents the model supplies)
RPow(x, y) ==
    IF IsNum(x) /\ IsNum(y)
    THEN CASE y[2] = 1 /\ y[1] >= 0 -> RPowNat(x, y[1])
    ELSE Bad(x, y)

RECURSIVE SumFirst(_, _)
\* the sum of the first n values of the list s, added from the left
SumFirst(s, n) == IF n = 0 THEN Zero ELSE RAdd(SumFirst(s, n - 1), s[n])

\* python's sum([...]) over a list of values, each of them computed once
RSumSeq(s) == SumFirst(s \o <<>>, Len(s))

\* try: x  except ZeroDivisionError: fallback
ExceptZeroDivision(x, fallback) == IF x = ZeroDivisionError THEN fallback ELSE x

RECURSIVE Pow10(_)
Pow10(k) == IF k = 0 THEN 1 ELSE 10 * Pow10(k - 1)

\* the integer nearest to a / b (a >= 0, b > 0), ties to the even neighbour
RoundHalfEven(a, b) ==
    LET q == a \div b
        r == a % b
    IN  IF 2 * r < b THEN q
        ELSE IF 2 * r > b THEN q + 1
        ELSE IF q % 2 = 0 THEN q ELSE q + 1

\* the default `precision` of Quantity.__call__
Precision == 6

RECURSIVE NDigits(_)
\* number of decimal digits of the natural number i >= 1
NDigits(i) == IF i < 10 THEN 1 ELSE 1 + NDigits(i \div 10)

RECURSIVE LeadShift(_, _, _)
\* least j >= k with a * 10^j >= d, for 0 < a < d: the position of the first
\* significant decimal of a / d
LeadShift(a, d, k) == IF a * Pow10(k) >= d THEN k ELSE LeadShift(a, d, k + 1)

\* a / d rounded to k decimals, as the rational it denotes
RoundDecimals(a, d, k) ==
    LET g == Gcd(Pow10(k), d)
    IN  Rat(RoundHalfEven(a * (Pow10(k) \div g), d \div g), Pow10(k))

\* float(f"{magnitude:.6g}"): the magnitude rounded to Precision significant
\* digits
RoundSig(x) ==
    LET a == Abs(x[1])
        d == x[2]
        ip == a \div d
        r == IF ip >= 1
             THEN LET nd == NDigits(ip)
                  IN  IF nd >= Precision
                      THEN LET k == nd - Precision
                           IN  Num(RoundHalfEven(a, d * Pow10(k)) * Pow10(k))
                      ELSE RoundDecimals(a, d, Precision - nd)
             ELSE RoundDecimals(a, d, LeadShift(a, d, 1) + Precision - 1)
    IN  IF ~IsNum(x) THEN (IF IsExc(x) THEN x ELSE TypeError)
        ELSE IF x[1] = 0 THEN Zero
        ELSE IF x[1] < 0 THEN <<-r[1], r[2]>> ELSE r

\* Quantity.__call__(unit) of a quantity already expressed in `unit`: the
\* conversion keeps the magnitude, the formatting rounds it
QtyCall(x) == RoundSig(x)

\* Quantity(value, unit): float(value) must succeed
Qty(x) == IF IsNone(x) THEN TypeError ELSE x

(***************************************************************************)
(* Parameter mappings.  A supplied value is a Quantity (qty = TRUE) or a   *)
(* bare python value (qty = FALSE); a parameter that is not supplied is    *)
(* not in the mapping's domain.                                            *)
(***************************************************************************)
Q(x) == [qty |-> TRUE, v |-> x]

F(x) == [qty |-> FALSE, v |-> x]

\* UnPacker.unpack(param, unit, default_value)
Unpack(params, param, default_value) ==
    LET val == IF param \in DOMAIN params THEN params[param] ELSE F(default_value)
    IN  IF val.qty THEN QtyCall(val.v)
        ELSE IF IsNone(val.v) \/ IsZero(val.v) THEN None
        ELSE val.v

\* first exception among the values of s, None when there is none
RECURSIVE FirstExc(_)
FirstExc(s) ==
    IF s = <<>> THEN None
    ELSE IF IsExc(s[1]) THEN s[1] ELSE FirstExc(Tail(s))

(***************************************************************************)
(* heaty/model/auxiliary.py                                                *)
(***************************************************************************)
\* mean_internal_surface_temperature(**params)
mean_internal_surface_temperature(params) ==
    LET T_i_d == Unpack(params, "T_i_d", Zero)
        gT_a == Unpack(params, "gT_a", One)
        h == Unpack(params, "h", Zero)
        h_occ == Unpack(params, "h_occ", One)
        dT_s == Unpack(params, "dT_s", Zero)
    IN  RAdd(RAdd(T_i_d, RMul(gT_a, RSub(h, h_occ))), dT_s)

\* mean_internal_air_temperature(**params)
mean_internal_air_temperature(params) ==
    LET T_i_d == Unpack(params, "T_i_d", Zero)
        gT_a == Unpack(params, "gT_a", One)
        h == Unpack(params, "h", Zero)
        h_occ == Unpack(params, "h_occ", One)
        dT_rad == Unpack(params, "dT_rad", Zero)
    IN  RSub(RAdd(T_i_d, RMul(gT_a, RSub(RMul(Rat(1, 2), h), h_occ))), dT_rad)

\* x >= 4.0 as python evaluates it: TRUE/FALSE on numbers; the comparison of
\* None with a float raises, which the callers test with IsNum first
GE4(x) == ~Less(x, Num(4))

(***************************************************************************)
(* heaty/model/climate_data.py                                             *)
(***************************************************************************)
\* ClimateData(**params)
ClimateData(params) ==
    [T_e_d |-> Unpack(params, "T_e_d", Zero),
     T_e_an |-> Unpack(params, "T_e_an", Zero),
     T_e_min |-> Unpack(params, "T_e_min", Zero)]

(***************************************************************************)
(* heaty/model/building_elements.py                                        *)
(***************************************************************************)
\* the keys of CATEGORIES
CATEGORIES ==
    {"exterior", "adjacent_heated_space", "adjacent_building_entity",
     "adjacent_unheated_space", "ground"}

\* BuildingElement._set_T_sm for the heated space record hs
set_T_sm(hs) ==
    IF ~IsNum(hs.h_r) THEN TypeError
    ELSE IF GE4(hs.h_r)
    THEN mean_internal_surface_temperature(
             [T_id |-> F(hs.T_i_d), gT_a |-> F(hs.gT_a), h |-> F(hs.h_r),
              h_occ |-> F(hs.h_occ), dT_s |-> F(hs.dT_s)])
    ELSE hs.T_i_d

\* BuildingElement._calc_temp_adjust_factor: the f1 the element keeps
calc_f1(f1, T_i_d, T_e_d, T_adj) ==
    IF IsNone(f1) THEN RDiv(RSub(T_i_d, T_adj), RSub(T_i_d, T_e_d)) ELSE f1

\* a temperature adjustment that falls back on 1 where it is undefined
calc_temp_adjust_factor_default(f1, T_i_d, T_e_d, T_adj, T_sm) ==
    LET f2 == RDiv(RSub(T_sm, T_i_d), RSub(T_i_d, T_e_d))
    IN  IF T_i_d = T_e_d THEN One ELSE RAdd(calc_f1(f1, T_i_d, T_e_d, T_adj), f2)

\* BuildingElement._calc_temp_adjust_factor: the value returned
calc_temp_adjust_factor(f1, T_i_d, T_e_d, T_adj, T_sm) ==
    LET f2 == RDiv(RSub(T_sm, T_i_d), RSub(T_i_d, T_e_d))
    IN  RAdd(calc_f1(f1, T_i_d, T_e_d, T_adj), f2)

\* the attributes every element record carries; the ones a subclass does not
\* set stay None
ElementBase(hs, hsid, r) ==
    [category |-> r.category.v,
     heated_space |-> hsid,
     A |-> Unpack(r, "A", Zero),
     U |-> Unpack(r, "U", Zero),
     T_i_d |-> hs.T_i_d,
     T_e_d |-> hs.T_e_d,
     T_sm |-> set_T_sm(hs),
     f1 |-> Unpack(r, "f1", None),
     T_adj |-> None, f_T |-> None, H |-> None,
     dU_tb |-> None, f_U |-> None,
     f_dT_an |-> None, f_gw |-> None, A_g |-> None, P |-> None, B |-> None,
     z |-> None, branch |-> 0, U_equiv |-> None,
     raised |-> None]

\* `self.f_T = self._calc_temp_adjust_factor()`, which also sets self.f1
set_f_T(be) ==
    [be EXCEPT !.f1 = calc_f1(be.f1, be.T_i_d, be.T_e_d, be.T_adj),
               !.f_T = calc_temp_adjust_factor(be.f1, be.T_i_d, be.T_e_d, be.T_adj, be.T_sm)]

\* the element as __init__ leaves it: `raised` is the first exception among
\* the values computed in the order of the constructor, None when it returned
constructed(be) ==
    [be EXCEPT !.raised = FirstExc(<<be.T_sm, be.B, be.U_equiv, be.f_T, be.H>>)]

\* `self._H = self._calc_heat_transfer_coefficient()` of ExteriorBuildingElement
Exterior_set_H(be) ==
    [be EXCEPT !.H = RMul(RMul(RMul(be.A, RAdd(be.U, be.dU_tb)), be.f_U), be.f_T)]

\* ExteriorBuildingElement.__init__
ExteriorBuildingElement(hs, hsid, r) ==
    constructed(Exterior_set_H(set_f_T(
        [ElementBase(hs, hsid, r) EXCEPT !.dU_tb = Unpack(r, "dU_tb", Rat(1, 10)),
                                         !.f_U = Unpack(r, "f_U", One),
                                         !.T_adj = hs.T_e_d])))

\* `self._H = self._calc_heat_transfer_coefficient()` of AdjacentBuildingElement
Adjacent_set_H(be) == [be EXCEPT !.H = RMul(RMul(be.A, be.U), be.f_T)]

\* AdjacentBuildingElement.__init__
AdjacentBuildingElement(hs, hsid, r) ==
    constructed(Adjacent_set_H(set_f_T(
        [ElementBase(hs, hsid, r) EXCEPT !.T_adj = Unpack(r, "T_adj", Zero)])))

\* GroundBuildingElement._set_U_equiv_params: 1 when z == 0.0 selects the
\* first coefficient set, 2 when z > 0.0 selects the second, 0 when neither
\* test succeeds and the attributes a, b, c, d, n stay unset
set_U_equiv_params(z) ==
    IF z = Zero THEN 1 ELSE IF Less(Zero, z) THEN 2 ELSE 0

\* GroundBuildingElement._calc_U_equiv.  The exponents of the formula are
\* not rational: its value is tabulated, to four decimals, for the arguments
\* the model supplies (B, z, U + dU_tb).
calc_U_equiv(branch, B, z, U, dU_tb) ==
    LET Ut == RAdd(U, dU_tb)
    IN  IF ~(IsNum(B) /\ IsNum(z) /\ IsNum(Ut)) THEN Bad(B, Bad(z, Ut))
        ELSE CASE branch = 1 /\ B = Num(2) /\ Ut = Rat(2, 5) -> Rat(3258, 10000)
               [] branch = 1 /\ B = Num(2) /\ Ut = One -> Rat(5988, 10000)
               [] branch = 1 /\ B = Num(4) /\ Ut = One -> Rat(4873, 10000)
               [] branch = 2 /\ B = Num(2) /\ z = One /\ Ut = Rat(2, 5) -> Rat(3267, 10000)
               [] branch = 2 /\ B = Num(2) /\ z = One /\ Ut = One -> Rat(6725, 10000)

\* `self.B = self._calc_B()`
calc_B(be) == [be EXCEPT !.B = RDiv(be.A_g, RMul(Rat(1, 2), be.P))]

\* the coefficient set _calc_U_equiv works with: `self.z > 0.0` raises on
\* None, and with neither set selected the read of self.c raises
\* AttributeError, kept as TypeError
U_equiv_params(z) == IF IsNum(z) THEN set_U_equiv_params(z) ELSE 0

\* `self.U_equiv = self._calc_U_equiv()`
set_U_equiv(be) ==
    [be EXCEPT !.branch = U_equiv_params(be.z),
               !.U_equiv = IF IsExc(be.B) THEN be.B
                           ELSE IF U_equiv_params(be.z) = 0 THEN TypeError
                           ELSE calc_U_equiv(U_equiv_params(be.z), be.B, be.z, be.U,
                                             be.dU_tb)]

\* `self._H = self._calc_heat_transfer_coefficient()` of GroundBuildingElement
Ground_set_H(be) ==
    [be EXCEPT !.H = RMul(RMul(RMul(RMul(be.f_dT_an, be.A), be.U_equiv), be.f_T),
                          be.f_gw)]

\* GroundBuildingElement.__init__
GroundBuildingElement(hs, hsid, r) ==
    constructed(Ground_set_H(set_f_T(set_U_equiv(calc_B(
        [ElementBase(hs, hsid, r) EXCEPT !.f_dT_an = Unpack(r, "f_dT_an", Rat(145, 100)),
                                         !.f_gw = Unpack(r, "f_gw", One),
                                         !.A_g = Unpack(r, "A_g", Zero),
                                         !.P = Unpack(r, "P", Zero),
                                         !.dU_tb = Unpack(r, "dU_tb", Rat(1, 10)),
                                         !.z = Unpack(r, "z", Zero),
                                         !.T_adj = hs.T_e_an])))))

\* HeatedSpace._create_building_element: CATEGORIES[category](self, **params)
create_building_element(hs, hsid, r) ==
    IF r.category.v \notin CATEGORIES
    THEN [ElementBase(hs, hsid, r) EXCEPT !.raised = KeyError]
    ELSE IF r.category.v = "exterior" THEN ExteriorBuildingElement(hs, hsid, r)
    ELSE IF r.category.v = "ground" THEN GroundBuildingElement(hs, hsid, r)
    ELSE AdjacentBuildingElement(hs, hsid, r)

\* BuildingElement.H
H(be) == Qty(be.H)

(***************************************************************************)
(* heaty/model/building.py: HeatedSpace                                    *)
(***************************************************************************)
\* HeatedSpace.__init__(ventilation_zone, name, climate_data, **params)
HeatedSpace(ventilation_zone, name, climate_data, params) ==
    [name |-> name,
     T_i_d |-> Unpack(params, "T_i_d", Zero),
     T_e_d |-> climate_data.T_e_d,
     T_e_an |-> climate_data.T_e_an,
     A_fl |-> Unpack(params, "A_fl", Zero),
     V_r |-> Unpack(params, "V_r", Zero),
     h_r |-> Unpack(params, "h_r", Rat(27, 10)),
     h_occ |-> Unpack(params, "h_occ", One),
     gT_a |-> Unpack(params, "gT_a", One),
     dT_s |-> Unpack(params, "dT_s", Zero),
     dT_rad |-> Unpack(params, "dT_rad", Zero),
     n_min |-> Unpack(params, "n_min", Rat(1, 2)),
     V_open |-> Unpack(params, "V_open", Zero),
     V_ATD_d |-> Unpack(params, "V_ATD_d", Zero),
     V_sup |-> Unpack(params, "V_sup", Zero),
     V_trf |-> Unpack(params, "V_trf", Zero),
     V_exh |-> Unpack(params, "V_exh", Zero),
     V_comb |-> Unpack(params, "V_comb", Zero),
     T_sup |-> Unpack(params, "T_sup", Zero),
     T_trf |-> Unpack(params, "T_trf", Zero),
     q_hu |-> Unpack(params, "q_hu", Zero),
     building_elements |-> [category \in CATEGORIES |-> <<>>],
     ventilation_zone |-> ventilation_zone]

\* `self.building_elements[category].append(building_element)`: the space
\* with the element appended to the list of its category; `raised` is the
\* exception that ended the call, None when it returned
append_building_element(hs, building_element) ==
    IF ~IsNone(building_element.raised)
    THEN [hs |-> hs, raised |-> building_element.raised]
    ELSE [hs |-> [hs EXCEPT !.building_elements[building_element.category] =
                                Append(@, building_element)],
          raised |-> None]

\* HeatedSpace.add_building_element(**params)
add_building_element(hs, hsid, r) ==
    append_building_element(hs, create_building_element(hs, hsid, r))

RECURSIVE add_building_elements(_, _, _)
\* the rest of the loop after one call: it ends at the first record that
\* raises
add_more_building_elements(one, hsid, bem_records) ==
    IF ~IsNone(one.raised) THEN one
    ELSE add_building_elements(one.hs, hsid, bem_records)

\* `for r in bem_records: hs.add_building_element(**r)`
add_building_elements(hs, hsid, bem_records) ==
    IF bem_records = <<>> THEN [hs |-> hs, raised |-> None]
    ELSE add_more_building_elements(add_building_element(hs, hsid, bem_records[1]),
                                    hsid, Tail(bem_records))

\* sum([be.H('W / K') for be in self.building_elements[category]]) as a
\* Quantity: HeatedSpace.HT_ie, HT_ia, HT_iaBE, HT_iae, HT_ig
HT(hs, category) ==
    LET bes_ == hs.building_elements[category]
    IN  Qty(RSumSeq([i \in 1..Len(bes_) |-> QtyCall(H(bes_[i]))]))

HT_ie(hs) == HT(hs, "exterior")

HT_ia(hs) == HT(hs, "adjacent_heated_space")

HT_iaBE(hs) == HT(hs, "adjacent_building_entity")

HT_iae(hs) == HT(hs, "adjacent_unheated_space")

HT_ig(hs) == HT(hs, "ground")

\* HeatedSpace.Q_trm
HS_Q_trm(hs) ==
    LET HT_ == RSumSeq(<<QtyCall(HT_ie(hs)), QtyCall(HT_ia(hs)), QtyCall(HT_iaBE(hs)),
                         QtyCall(HT_iae(hs)), QtyCall(HT_ig(hs))>>)
    IN  Qty(RMul(HT_, RSub(hs.T_i_d, hs.T_e_d)))

\* HeatedSpace.T_ia
T_ia(hs) ==
    IF ~IsNum(hs.h_r) THEN TypeError
    ELSE IF GE4(hs.h_r)
    THEN mean_internal_air_temperature(
             [T_id |-> F(hs.T_i_d), gT_a |-> F(hs.gT_a), h |-> F(hs.h_r),
              h_occ |-> F(hs.h_occ), dT_rad |-> F(hs.dT_rad)])
    ELSE hs.T_i_d

\* sum([be.A for be in self.building_elements[category]])
AreaSum(hs, category) ==
    LET bes_ == hs.building_elements[category]
    IN  RSumSeq([i \in 1..Len(bes_) |-> bes_[i].A])

\* HeatedSpace.A_env
HS_A_env(hs) ==
    Qty(RAdd(AreaSum(hs, "exterior"), AreaSum(hs, "adjacent_unheated_space")))

\* HeatedSpace.V_min
V_min(hs) == RMul(hs.n_min, hs.V_r)

\* HeatedSpace.V_tech
V_tech(hs) == RMax(RAdd(hs.V_sup, hs.V_trf), RAdd(hs.V_exh, hs.V_comb))

\* HeatedSpace.Q_hu
HS_Q_hu(hs) == Qty(RMul(hs.A_fl, hs.q_hu))

\* HeatedSpace.Q_gain
HS_Q_gain(hs) == Qty(Zero)

(***************************************************************************)
(* The object graph.  0 in a dict marks a key that is absent, and is the   *)
(* default name of a Building.  An object id is the slot it has in the     *)
(* heap of its class.                                                      *)
(***************************************************************************)
Names == {1, 2}

VARIABLES
    bus,              \* Building objects: [name, building_entities]
    bes,              \* BuildingEntity objects: [building, name, ventilation_zones]
    vzdicts,          \* the dict objects BuildingEntity.ventilation_zones refers to
    vzs,              \* VentilationZone objects
    hsdicts,          \* the dict objects VentilationZone.heated_spaces refers to
    hss,              \* HeatedSpace objects
    building,         \* BuildingEntityFactory.building (= Controller.building)
    climate_data,     \* HeatedSpaceFactory.climate_data (= Controller.climate_data)
    cur_selection,    \* Controller.cur_selection: [kind, id]
    last,             \* the operation that ran last and how it ended
    steps             \* the number of operations on the building so far

vars ==
    <<bus, bes, vzdicts, vzs, hsdicts, hss, building, climate_data,
      cur_selection, last, steps>>

EmptyDict == [n \in Names |-> 0]

RECURSIVE DictValuesFrom(_, _)
DictValuesFrom(d, n) ==
    IF n \notin DOMAIN d THEN <<>>
    ELSE (IF d[n] # 0 THEN <<d[n]>> ELSE <<>>) \o DictValuesFrom(d, n + 1)

\* dict.values(), as a list
DictValues(d) == DictValuesFrom(d, 1)

\* the keys of a dict
DictKeys(d) == {n \in DOMAIN d : d[n] # 0}

(***************************************************************************)
(* heaty/model/building.py: VentilationZone                                *)
(***************************************************************************)
\* VentilationZone.__init__(building_entity, name, **params); heated_spaces
\* is the id of the dict object the instance refers to
VentilationZone(building_entity_, name, params, heated_spaces) ==
    [name |-> name,
     building_entity |-> building_entity_,
     heated_spaces |-> heated_spaces,
     q_env_50 |-> Unpack(params, "q_env_50", Zero),
     V_ATD_d |-> Unpack(params, "V_ATD_d", Zero),
     dP_ATD_d |-> Unpack(params, "dP_ATD_d", Num(4)),
     v_leak |-> Unpack(params, "v_leak", Rat(67, 100)),
     f_fac |-> Unpack(params, "f_fac", Num(12)),
     f_V |-> Unpack(params, "f_V", Rat(5, 100)),
     f_dir |-> Unpack(params, "f_dir", Num(2)),
     f_iz |-> Unpack(params, "f_iz", Rat(1, 2))]

\* self.heated_spaces.values() of the zone with id z
ZoneSpaces(z) == DictValues(hsdicts[vzs[z].heated_spaces])

\* sum of f over the member spaces of zone z
SumOverSpaces(z, f(_)) ==
    LET ids == ZoneSpaces(z)
    IN  RSumSeq([i \in 1..Len(ids) |-> f(hss[ids[i]])])

\* VentilationZone.A_env
VZ_A_env(z) == LET a(hs) == QtyCall(HS_A_env(hs)) IN SumOverSpaces(z, a)

\* VentilationZone.V_ATD_50
V_ATD_50(z) ==
    RMul(vzs[z].V_ATD_d, RPow(RDiv(Num(50), vzs[z].dP_ATD_d), vzs[z].v_leak))

\* VentilationZone.V_exh
VZ_V_exh(z) == LET a(hs) == hs.V_exh IN SumOverSpaces(z, a)

\* VentilationZone.V_comb
VZ_V_comb(z) == LET a(hs) == hs.V_comb IN SumOverSpaces(z, a)

\* VentilationZone.V_sup
VZ_V_sup(z) == LET a(hs) == hs.V_sup IN SumOverSpaces(z, a)

\* VentilationZone.f_e: n and d are computed outside the try
f_e(z) ==
    LET n == RSub(RAdd(VZ_V_exh(z), VZ_V_comb(z)), VZ_V_sup(z))
        d == RAdd(RMul(vzs[z].q_env_50, VZ_A_env(z)), V_ATD_50(z))
    IN  IF IsExc(n) THEN n
        ELSE IF IsExc(d) THEN d
        ELSE ExceptZeroDivision(
                 RDiv(One, RAdd(One, RMul(RDiv(vzs[z].f_fac, vzs[z].f_V),
                                           RPow(RDiv(n, d), Num(2))))),
                 One)

\* VentilationZone.V_inf_add
V_inf_add(z) ==
    RMul(RMul(RAdd(RMul(vzs[z].q_env_50, VZ_A_env(z)), V_ATD_50(z)), vzs[z].f_V),
         f_e(z))

\* VentilationZone.V_env
VZ_V_env(z) ==
    RAdd(RMax(RSub(RAdd(VZ_V_exh(z), VZ_V_comb(z)), VZ_V_sup(z)), Zero),
         V_inf_add(z))

\* VentilationZone.a_ATD
a_ATD(z) ==
    ExceptZeroDivision(
        RDiv(V_ATD_50(z), RAdd(V_ATD_50(z), RMul(vzs[z].q_env_50, VZ_A_env(z)))),
        Zero)

\* VentilationZone.V_leak
V_leak(z) == RMul(RSub(One, a_ATD(z)), VZ_V_env(z))

\* VentilationZone.V_ATD
V_ATD(z) == RMul(a_ATD(z), VZ_V_env(z))

(***************************************************************************)
(* HeatedSpace properties that read the zone through the back-reference    *)
(* self.ventilation_zone                                                   *)
(***************************************************************************)
\* HeatedSpace.V_leak_ATD computed against the zone with id z
V_leak_ATD_in(hs, z) ==
    ExceptZeroDivision(
        RAdd(RMul(V_leak(z), RDiv(HS_A_env(hs), VZ_A_env(z))),
             RMul(V_ATD(z), RDiv(hs.V_ATD_d, vzs[z].V_ATD_d))),
        Zero)

\* HeatedSpace.V_leak_ATD
V_leak_ATD(hs) == V_leak_ATD_in(hs, hs.ventilation_zone)

\* HeatedSpace.V_env computed against the zone with id z
HS_V_env_in(hs, z) ==
    LET first == RMul(RDiv(V_inf_add(z), VZ_V_env(z)),
                      RMin(VZ_V_env(z), RMul(V_leak_ATD_in(hs, z), vzs[z].f_dir)))
        second == RMul(RDiv(RSub(VZ_V_env(z), V_inf_add(z)), VZ_V_env(z)),
                       V_leak_ATD_in(hs, z))
    IN  ExceptZeroDivision(RAdd(first, second), Zero)

\* HeatedSpace.V_env
HS_V_env(hs) == HS_V_env_in(hs, hs.ventilation_zone)

\* 0.34 * (VT_inf + VT_sup + VT_trf) with the given infiltration flow term
VentilationLoss(hs, V_inf) ==
    LET VT_inf == RMul(V_inf, RSub(T_ia(hs), hs.T_e_d))
        VT_sup == RMul(hs.V_sup, RSub(T_ia(hs), hs.T_sup))
        VT_trf == RMul(hs.V_trf, RSub(T_ia(hs), hs.T_trf))
    IN  RAdd(RAdd(VT_inf, VT_sup), VT_trf)

\* HeatedSpace.Q_ven computed against the zone with id z
HS_Q_ven_in(hs, z) ==
    LET V_inf == RMax(RAdd(HS_V_env_in(hs, z), hs.V_open),
                      RSub(V_min(hs), V_tech(hs)))
    IN  Qty(RMul(Rat(34, 100), VentilationLoss(hs, V_inf)))

\* HeatedSpace.Q_ven
HS_Q_ven(hs) == HS_Q_ven_in(hs, hs.ventilation_zone)

\* HeatedSpace.Q_load
HS_Q_load(hs) ==
    RSub(RAdd(RAdd(HS_Q_trm(hs), HS_Q_ven(hs)), HS_Q_hu(hs)), HS_Q_gain(hs))

\* a VentilationZone.Q_ven that adds up the Q_ven of the member spaces
VZ_Q_ven_delegating(z) ==
    LET own(hs) == HS_Q_ven(hs)
    IN  Qty(SumOverSpaces(z, own))

\* VentilationZone.Q_ven
VZ_Q_ven(z) ==
    LET VT(hs) ==
            VentilationLoss(hs, RMax(RAdd(V_leak_ATD(hs), hs.V_open),
                                     RSub(RMul(vzs[z].f_iz, V_min(hs)), V_tech(hs))))
    IN  Qty(RMul(Rat(34, 100), SumOverSpaces(z, VT)))

(***************************************************************************)
(* heaty/model/building.py: BuildingEntity, Building                       *)
(***************************************************************************)
\* BuildingEntity.__init__(building, name); ventilation_zones is the id of
\* the dict object the instance refers to
BuildingEntity(building_, name, ventilation_zones) ==
    [building |-> building_, name |-> name, ventilation_zones |-> ventilation_zones]

\* Building.__init__(name)
Building(name) == [name |-> name, building_entities |-> EmptyDict]

\* self.ventilation_zones.values() of the building entity with id b
EntityZones(b) == DictValues(vzdicts[bes[b].ventilation_zones])

RECURSIVE Flatten(_)
Flatten(ss) == IF ss = <<>> THEN <<>> ELSE ss[1] \o Flatten(Tail(ss))

\* BuildingEntity.heated_spaces
BE_heated_spaces(b) ==
    LET zs == EntityZones(b)
    IN  Flatten([i \in 1..Len(zs) |-> ZoneSpaces(zs[i])])

\* sum over a list of ids
SumOver(ids, f(_)) == RSumSeq([i \in 1..Len(ids) |-> f(ids[i])])

\* `Q += hs.HT('W / K') * (hs.T_i_d - hs.T_e_d)` over a list of spaces
TrmOver(ids, category) ==
    LET a(i) == RMul(QtyCall(HT(hss[i], category)), RSub(hss[i].T_i_d, hss[i].T_e_d))
    IN  SumOver(ids, a)

\* BuildingEntity.Q_trm
BE_Q_trm(b) ==
    LET ids == BE_heated_spaces(b)
        Q_ie == TrmOver(ids, "exterior")
        Q_iae == TrmOver(ids, "adjacent_unheated_space")
        Q_iaBE == TrmOver(ids, "adjacent_building_entity")
        Q_ig == TrmOver(ids, "ground")
    IN  Qty(RAdd(RAdd(RAdd(Q_ie, Q_iae), Q_iaBE), Q_ig))

\* BuildingEntity.Q_ven
BE_Q_ven(b) == LET a(z) == QtyCall(VZ_Q_ven(z)) IN Qty(SumOver(EntityZones(b), a))

\* BuildingEntity.Q_hu
BE_Q_hu(b) ==
    LET a(i) == QtyCall(HS_Q_hu(hss[i])) IN Qty(SumOver(BE_heated_spaces(b), a))

\* BuildingEntity.Q_gain
BE_Q_gain(b) ==
    LET a(i) == QtyCall(HS_Q_gain(hss[i])) IN Qty(SumOver(BE_heated_spaces(b), a))

\* BuildingEntity.Q_load
BE_Q_load(b) ==
    Qty(RSub(RSumSeq(<<QtyCall(BE_Q_trm(b)), QtyCall(BE_Q_ven(b)), QtyCall(BE_Q_hu(b))>>),
             QtyCall(BE_Q_gain(b))))

\* self.building_entities.values() of the building with id u
BuildingEntities(u) == DictValues(bus[u].building_entities)

\* the heated spaces the loops of Building.Q_trm visit
BU_heated_spaces(u) ==
    LET es == BuildingEntities(u)
    IN  Flatten([i \in 1..Len(es) |-> BE_heated_spaces(es[i])])

\* Building.Q_trm with the term of the elements adjacent to another building
\* entity, which BuildingEntity.Q_trm has, added
BU_Q_trm_all(u) ==
    LET ids == BU_heated_spaces(u)
        Q_ie == TrmOver(ids, "exterior")
        Q_iae == TrmOver(ids, "adjacent_unheated_space")
        Q_iaBE == TrmOver(ids, "adjacent_building_entity")
        Q_ig == TrmOver(ids, "ground")
    IN  Qty(RAdd(RAdd(RAdd(Q_ie, Q_iae), Q_iaBE), Q_ig))

\* Building.Q_trm
BU_Q_trm(u) ==
    LET ids == BU_heated_spaces(u)
        Q_ie == TrmOver(ids, "exterior")
        Q_iae == TrmOver(ids, "adjacent_unheated_space")
        Q_ig == TrmOver(ids, "ground")
    IN  Qty(RAdd(RAdd(Q_ie, Q_iae), Q_ig))

\* Building.Q_ven
BU_Q_ven(u) == LET a(b) == QtyCall(BE_Q_ven(b)) IN Qty(SumOver(BuildingEntities(u), a))

\* Building.Q_hu
BU_Q_hu(u) == LET a(b) == QtyCall(BE_Q_hu(b)) IN Qty(SumOver(BuildingEntities(u), a))

\* Building.Q_gain
BU_Q_gain(u) == LET a(b) == QtyCall(BE_Q_gain(b)) IN Qty(SumOver(BuildingEntities(u), a))

\* Building.Q_load
BU_Q_load(u) ==
    Qty(RSub(RSumSeq(<<QtyCall(BU_Q_trm(u)), QtyCall(BU_Q_ven(u)), QtyCall(BU_Q_hu(u))>>),
             QtyCall(BU_Q_gain(u))))

(***************************************************************************)
(* The inputs the operations draw from: the parameter mappings the dialogs *)
(* submit (InputForm.read gives a Quantity for a field with a unit and a   *)
(* float for one without).                                                 *)
(***************************************************************************)
\* a category tag of a building-element record
Tag(c) == [qty |-> FALSE, v |-> c]

ClimateInputs == {1, 2}

ClimateParams(i) ==
    IF i = 1
    THEN [T_e_d |-> Q(Zero), T_e_an |-> Q(Zero), T_e_min |-> Q(Zero)]
    ELSE [T_e_d |-> Q(Num(-20)), T_e_an |-> Q(Num(10)), T_e_min |-> Q(Num(-5))]

VZInputs == {1, 2}

RECURSIVE VZParams(_)
VZParams(i) ==
    IF i = 1
    THEN [q_env_50 |-> Q(Num(3)), V_ATD_d |-> Q(Num(10)), dP_ATD_d |-> Q(Num(50)),
          v_leak |-> F(One), f_fac |-> F(Num(12)), f_V |-> F(Rat(1, 20)),
          f_dir |-> F(Num(2)), f_iz |-> F(Rat(1, 2))]
    ELSE IF i = 2
    THEN [q_env_50 |-> Q(Num(6)), V_ATD_d |-> Q(Num(20)), dP_ATD_d |-> Q(Num(25)),
          v_leak |-> F(One), f_fac |-> F(Num(8)), f_V |-> F(Rat(1, 10)),
          f_dir |-> F(Num(3)), f_iz |-> F(One)]
    \* no air terminal devices: the value the dialog proposes for V_ATD_d
    ELSE IF i = 3 THEN [VZParams(1) EXCEPT !.V_ATD_d = Q(Zero)]
    \* no design pressure difference
    ELSE IF i = 4 THEN [VZParams(1) EXCEPT !.dP_ATD_d = Q(Zero)]
    \* a volume flow factor of zero, which the dialog reads as a float
    ELSE IF i = 5 THEN [VZParams(1) EXCEPT !.f_V = F(Zero)]
    \* a mapping without V_ATD_d and dP_ATD_d
    ELSE [p \in DOMAIN VZParams(1) \ {"V_ATD_d", "dP_ATD_d"} |-> VZParams(1)[p]]

HSInputs == {1, 2}

\* the second space has mechanical supply and exhaust in balance

RECURSIVE HSParams(_)
HSParams(i) ==
    IF i = 1
    THEN [T_i_d |-> Q(Num(20)), A_fl |-> Q(Rat(123456, 1000)), V_r |-> Q(Num(30)),
          h_r |-> Q(Rat(5, 2)), h_occ |-> Q(One), gT_a |-> Q(One), dT_s |-> Q(Zero),
          dT_rad |-> Q(Zero), n_min |-> Q(Rat(1, 2)), V_open |-> Q(Zero),
          V_ATD_d |-> Q(Num(10)), V_sup |-> Q(Zero), V_trf |-> Q(Zero),
          V_exh |-> Q(Zero), V_comb |-> Q(Zero), T_sup |-> Q(Zero),
          T_trf |-> Q(Zero), q_hu |-> Q(Num(10))]
    ELSE IF i = 2
    THEN [T_i_d |-> Q(Num(20)), A_fl |-> Q(Rat(10001, 1000)), V_r |-> Q(Num(50)),
          h_r |-> Q(Rat(5, 2)), h_occ |-> Q(One), gT_a |-> Q(One), dT_s |-> Q(Zero),
          dT_rad |-> Q(Zero), n_min |-> Q(Rat(1, 2)), V_open |-> Q(Num(5)),
          V_ATD_d |-> Q(Num(5)), V_sup |-> Q(Num(10)), V_trf |-> Q(Zero),
          V_exh |-> Q(Num(10)), V_comb |-> Q(Zero), T_sup |-> Q(Num(10)),
          T_trf |-> Q(Zero), q_hu |-> Q(One)]
    \* a room of 4 m high
    ELSE IF i = 3 THEN [HSParams(1) EXCEPT !.h_r = Q(Num(4))]
    \* an internal design temperature equal to the external design
    \* temperature of the default climate data
    ELSE IF i = 4 THEN [HSParams(1) EXCEPT !.T_i_d = Q(Zero)]
    \* a transfer air flow of 1000.1 m3/h at 12.4 degC
    ELSE [HSParams(1) EXCEPT !.V_trf = Q(Rat(10001, 10)), !.T_trf = Q(Rat(62, 5))]

ExteriorRecord ==
    [category |-> Tag("exterior"), A |-> Q(Num(10)), U |-> Q(One), f1 |-> F(None),
     dU_tb |-> Q(Rat(1, 10)), f_U |-> F(One)]

AdjacentRecord(category, A, U, T_adj) ==
    [category |-> Tag(category), A |-> Q(A), U |-> Q(U), f1 |-> F(None),
     T_adj |-> Q(T_adj)]

GroundRecord ==
    [category |-> Tag("ground"), A |-> Q(Num(20)), U |-> Q(Rat(3, 10)), f1 |-> F(None),
     f_dT_an |-> F(Rat(145, 100)), f_gw |-> F(One), A_g |-> Q(Num(20)),
     P |-> Q(Num(20)), dU_tb |-> Q(Rat(1, 10)), z |-> Q(Zero)]

BemRecords(i) ==
    IF i = 1
    THEN <<ExteriorRecord>>
    ELSE IF i = 2
    THEN <<ExteriorRecord,
           AdjacentRecord("adjacent_heated_space", Num(10), Num(2), Num(10)),
           AdjacentRecord("adjacent_building_entity", Num(5), One, Num(10)),
           AdjacentRecord("adjacent_unheated_space", Num(4), One, Num(10)),
           GroundRecord>>
    \* no building elements
    ELSE IF i = 3 THEN <<>>
    \* a record of an unknown category after a valid one
    ELSE <<ExteriorRecord, [ExteriorRecord EXCEPT !.category = Tag("roof")]>>

\* the zone parameters and the pairs of heated-space parameters and element
\* records that are tried beside the regular ones
ZoneInputs == {1, 3, 4, 5, 6}

EnvelopeInputs == {1, 3}

SpaceInputs ==
    {<<1, 1>>, <<1, 4>>, <<3, 1>>, <<3, 3>>, <<4, 1>>, <<4, 2>>, <<4, 3>>}

\* the ground element at depth zero, without a depth, and one metre deep
GroundRecords(i) ==
    IF i = 1 THEN GroundRecord
    ELSE IF i = 2 THEN [k \in DOMAIN GroundRecord \ {"z"} |-> GroundRecord[k]]
    ELSE [GroundRecord EXCEPT !.z = Q(One)]

GroundInputs == {1, 2, 3}

\* the element records a heated space is first built from, and the space
\* parameters that the dialog submits for a modification
ModifyEnvelopes == {1, 2}

ModifyInputs == {1, 4}

(***************************************************************************)
(* heaty/gui/controller.py                                                 *)
(***************************************************************************)
\* the number of add, modify, delete and rename operations in a behaviour of
\* the model, at most; selecting a row is not counted
MaxOps == 5

\* one more operation on the building is counted
Step == steps < MaxOps /\ steps' = steps + 1

Sel(kind, id) == [kind |-> kind, id |-> id]

Ran(op, raised) == [op |-> op, raised |-> raised]

\* Controller.__init__ followed by Controller.init_tree, which selects the
\* building row
Init ==
    /\ bus = <<Building(0)>>
    /\ bes = <<>>
    /\ vzdicts = <<>>
    /\ vzs = <<>>
    /\ hsdicts = <<>>
    /\ hss = <<>>
    /\ building = 1
    /\ climate_data = ClimateData(ClimateParams(1))
    /\ cur_selection = Sel("Building", 1)
    /\ last = Ran("init", None)
    /\ steps = 0

\* BuildingEntityFactory.create without the line that shifts the ventilation
\* zones of the original building entity to the new one
BuildingEntityFactory_create_bare(u, name) ==
    /\ bes' = Append(bes, BuildingEntity(u, name, Len(vzdicts) + 1))
    /\ vzdicts' = Append(vzdicts, EmptyDict)
    /\ bus' = [bus EXCEPT ![u].building_entities[name] = Len(bes) + 1]

\* BuildingEntityFactory.create(name), with cls.building = u.  The dict the
\* constructor gives a replacing instance is dropped at once and gets no id.
BuildingEntityFactory_create(u, name) ==
    LET be == bus[u].building_entities[name]
        new == Len(bes) + 1
    IN  /\ IF be = 0
           THEN /\ bes' = Append(bes, BuildingEntity(u, name, Len(vzdicts) + 1))
                /\ vzdicts' = Append(vzdicts, EmptyDict)
           ELSE /\ bes' = Append(bes, BuildingEntity(u, name, bes[be].ventilation_zones))
                /\ vzdicts' = vzdicts
        /\ bus' = [bus EXCEPT ![u].building_entities[name] = new]

\* VentilationZoneFactory.create that makes the new zone the only zone of the
\* building entity
VentilationZoneFactory_create_only(b, name, params) ==
    LET d == bes[b].ventilation_zones
        new == Len(vzs) + 1
    IN  /\ vzs' = Append(vzs, VentilationZone(b, name, params, Len(hsdicts) + 1))
        /\ hsdicts' = Append(hsdicts, EmptyDict)
        /\ vzdicts' = [vzdicts EXCEPT ![d] = [EmptyDict EXCEPT ![name] = new]]

\* VentilationZoneFactory.create without the line that hands the heated
\* spaces of the original zone to the new one
VentilationZoneFactory_create_bare(b, name, params) ==
    LET d == bes[b].ventilation_zones
        new == Len(vzs) + 1
    IN  /\ vzs' = Append(vzs, VentilationZone(b, name, params, Len(hsdicts) + 1))
        /\ hsdicts' = Append(hsdicts, EmptyDict)
        /\ vzdicts' = [vzdicts EXCEPT ![d][name] = new]

\* VentilationZoneFactory.create(name, params), with cls.building_entity = b
VentilationZoneFactory_create(b, name, params) ==
    LET d == bes[b].ventilation_zones
        vz == vzdicts[d][name]
        new == Len(vzs) + 1
    IN  /\ IF vz = 0
           THEN /\ vzs' = Append(vzs, VentilationZone(b, name, params, Len(hsdicts) + 1))
                /\ hsdicts' = Append(hsdicts, EmptyDict)
           ELSE /\ vzs' = Append(vzs, VentilationZone(b, name, params,
                                                       vzs[vz].heated_spaces))
                /\ hsdicts' = hsdicts
        /\ vzdicts' = [vzdicts EXCEPT ![d][name] = new]

\* the HeatedSpace that HeatedSpaceFactory.create builds before it stores it
NewHeatedSpace(z, name, params, bem_records) ==
    add_building_elements(HeatedSpace(z, name, climate_data, params),
                          Len(hss) + 1, bem_records)

\* a store that keeps what was built up to the exception
store_heated_space_partial(z, name, built) ==
    /\ hss' = Append(hss, built.hs)
    /\ hsdicts' = [hsdicts EXCEPT ![vzs[z].heated_spaces][name] = Len(hss) + 1]

\* `cls.ventilation_zone.heated_spaces[name] = hs`, reached when nothing
\* has raised
store_heated_space(z, name, built) ==
    IF IsNone(built.raised)
    THEN /\ hss' = Append(hss, built.hs)
         /\ hsdicts' = [hsdicts EXCEPT ![vzs[z].heated_spaces][name] = Len(hss) + 1]
    ELSE UNCHANGED <<hss, hsdicts>>

\* HeatedSpaceFactory.create that, like the other two factories, hands the
\* children of the original, its building elements, to the new instance
HeatedSpaceFactory_create_reattach(z, name, params, bem_records) ==
    LET built == NewHeatedSpace(z, name, params, bem_records)
        old == hsdicts[vzs[z].heated_spaces][name]
        hs == IF old = 0 THEN built.hs
              ELSE [built.hs EXCEPT !.building_elements = hss[old].building_elements]
    IN  IF IsNone(built.raised)
        THEN /\ hss' = Append(hss, hs)
             /\ hsdicts' = [hsdicts EXCEPT ![vzs[z].heated_spaces][name] = Len(hss) + 1]
        ELSE UNCHANGED <<hss, hsdicts>>

\* HeatedSpaceFactory.create(name, params, bem_records), with
\* cls.ventilation_zone = z; an exception of the constructor or of
\* add_building_element leaves the zone as it was
HeatedSpaceFactory_create(z, name, params, bem_records) ==
    store_heated_space(z, name, NewHeatedSpace(z, name, params, bem_records))

\* Controller.set_current_selection: the row pressed in the tree view is
\* looked up, by the names on its path, in the current building
set_current_selection(kind, n1, n2, n3) ==
    LET be == bus[building].building_entities[n1]
        vz == IF be = 0 THEN 0 ELSE vzdicts[bes[be].ventilation_zones][n2]
        hs == IF vz = 0 THEN 0 ELSE hsdicts[vzs[vz].heated_spaces][n3]
    IN  /\ \/ kind = "Building" /\ n1 = 1 /\ n2 = 1 /\ n3 = 1
              /\ cur_selection' = Sel(kind, building)
           \/ kind = "BuildingEntity" /\ n2 = 1 /\ n3 = 1 /\ be # 0
              /\ cur_selection' = Sel(kind, be)
           \/ kind = "VentilationZone" /\ n3 = 1 /\ vz # 0
              /\ cur_selection' = Sel(kind, vz)
           \/ kind = "HeatedSpace" /\ hs # 0
              /\ cur_selection' = Sel(kind, hs)
        /\ last' = Ran("set_current_selection", None)
        /\ UNCHANGED <<bus, bes, vzdicts, vzs, hsdicts, hss, building, climate_data, steps>>

\* set_climate_data_params that hands the new external temperatures to the
\* heated spaces that exist
set_climate_data_params_live(i) ==
    /\ climate_data' = ClimateData(ClimateParams(i))
    /\ hss' = [h \in 1..Len(hss) |->
                  [hss[h] EXCEPT !.T_e_d = ClimateData(ClimateParams(i)).T_e_d,
                                 !.T_e_an = ClimateData(ClimateParams(i)).T_e_an]]
    /\ last' = Ran("set_climate_data_params", None)
    /\ UNCHANGED <<bus, bes, vzdicts, vzs, hsdicts, building, cur_selection, steps>>

\* Controller.set_climate_data_params
set_climate_data_params(i) ==
    /\ climate_data' = ClimateData(ClimateParams(i))
    /\ last' = Ran("set_climate_data_params", None)
    /\ UNCHANGED <<bus, bes, vzdicts, vzs, hsdicts, hss, building, cur_selection, steps>>

\* Controller.add_building_entity(name); the building page offers it
add_building_entity(name) ==
    /\ cur_selection.kind = "Building"
    /\ Step
    /\ building' = cur_selection.id
    /\ BuildingEntityFactory_create(cur_selection.id, name)
    /\ last' = Ran("add_building_entity", None)
    /\ UNCHANGED <<vzs, hsdicts, hss, climate_data, cur_selection>>

\* Controller.add_ventilation_zone(name, params); the building-entity page
\* offers it
add_ventilation_zone(name, params) ==
    /\ cur_selection.kind = "BuildingEntity"
    /\ Step
    /\ VentilationZoneFactory_create(cur_selection.id, name, params)
    /\ last' = Ran("add_ventilation_zone", None)
    /\ UNCHANGED <<bus, bes, hss, building, climate_data, cur_selection>>

\* Controller.modify_ventilation_zone(params); the ventilation-zone page
\* offers it
modify_ventilation_zone(params) ==
    /\ cur_selection.kind = "VentilationZone"
    /\ Step
    /\ LET vz == vzs[cur_selection.id]
       IN  VentilationZoneFactory_create(vz.building_entity, vz.name, params)
    /\ last' = Ran("modify_ventilation_zone", None)
    /\ UNCHANGED <<bus, bes, hss, building, climate_data, cur_selection>>

\* Controller.add_heated_space(name, params, bem_records); the
\* ventilation-zone page offers it
add_heated_space(name, params, bem_records) ==
    /\ cur_selection.kind = "VentilationZone"
    /\ Step
    /\ UNCHANGED <<bus, bes, vzdicts, vzs, building, climate_data, cur_selection>>
    /\ LET z == cur_selection.id
       IN  /\ HeatedSpaceFactory_create(z, name, params, bem_records)
           /\ last' = Ran("add_heated_space",
                          NewHeatedSpace(z, name, params, bem_records).raised)

\* Controller.modify_heated_space(params, bem_records); the heated-space page
\* offers it
modify_heated_space(params, bem_records) ==
    /\ cur_selection.kind = "HeatedSpace"
    /\ Step
    /\ UNCHANGED <<bus, bes, vzdicts, vzs, building, climate_data, cur_selection>>
    /\ LET hs == hss[cur_selection.id]
           z == hs.ventilation_zone
       IN  /\ HeatedSpaceFactory_create(z, hs.name, params, bem_records)
           /\ last' = Ran("modify_heated_space",
                          NewHeatedSpace(z, hs.name, params, bem_records).raised)

\* dict[name] = value without the dict.pop(key) before it
Rekey_unpopped(d, key, name, value) == [d EXCEPT ![name] = value]

\* dict.pop(key) followed by dict[name] = value
Rekey(d, key, name, value) == [d EXCEPT ![key] = 0, ![name] = value]

\* Controller.delete_current_selection that clears the collection the selected
\* ventilation zone is in
delete_current_selection_clear ==
    /\ Step
    /\ cur_selection.kind = "VentilationZone"
    /\ vzdicts' = [vzdicts EXCEPT
                       ![bes[vzs[cur_selection.id].building_entity].ventilation_zones] =
                           EmptyDict]
    /\ last' = Ran("delete_current_selection", None)
    /\ UNCHANGED <<bus, bes, vzs, hsdicts, hss, building, climate_data, cur_selection>>

\* Controller.delete_current_selection; dict.pop of a key that is absent
\* raises KeyError and nothing is removed
delete_current_selection ==
    /\ Step
    /\ \/ /\ cur_selection.kind = "HeatedSpace"
          /\ LET hs == hss[cur_selection.id]
                 d == vzs[hs.ventilation_zone].heated_spaces
             IN  IF hsdicts[d][hs.name] # 0
                 THEN /\ hsdicts' = [hsdicts EXCEPT ![d][hs.name] = 0]
                      /\ last' = Ran("delete_current_selection", None)
                 ELSE /\ hsdicts' = hsdicts
                      /\ last' = Ran("delete_current_selection", KeyError)
          /\ UNCHANGED <<bus, vzdicts>>
       \/ /\ cur_selection.kind = "VentilationZone"
          /\ LET vz == vzs[cur_selection.id]
                 d == bes[vz.building_entity].ventilation_zones
             IN  IF vzdicts[d][vz.name] # 0
                 THEN /\ vzdicts' = [vzdicts EXCEPT ![d][vz.name] = 0]
                      /\ last' = Ran("delete_current_selection", None)
                 ELSE /\ vzdicts' = vzdicts
                      /\ last' = Ran("delete_current_selection", KeyError)
          /\ UNCHANGED <<bus, hsdicts>>
       \/ /\ cur_selection.kind = "BuildingEntity"
          /\ LET be == bes[cur_selection.id]
             IN  IF bus[building].building_entities[be.name] # 0
                 THEN /\ bus' = [bus EXCEPT ![building].building_entities[be.name] = 0]
                      /\ last' = Ran("delete_current_selection", None)
                 ELSE /\ bus' = bus
                      /\ last' = Ran("delete_current_selection", KeyError)
          /\ UNCHANGED <<vzdicts, hsdicts>>
       \/ /\ cur_selection.kind = "Building"
          /\ bus' = [bus EXCEPT ![building].building_entities = EmptyDict]
          /\ last' = Ran("delete_current_selection", None)
          /\ UNCHANGED <<vzdicts, hsdicts>>
    /\ UNCHANGED <<bes, vzs, hss, building, climate_data, cur_selection>>

\* Controller.edit_name(name) that puts a new building entity under the name
\* in place of the selected one
edit_name_fresh(name) ==
    /\ Step
    /\ cur_selection.kind = "BuildingEntity"
    /\ bus[building].building_entities[bes[cur_selection.id].name] # 0
    /\ bes' = Append(bes, BuildingEntity(building, name, Len(vzdicts) + 1))
    /\ vzdicts' = Append(vzdicts, EmptyDict)
    /\ bus' = [bus EXCEPT ![building].building_entities =
                              Rekey(@, bes[cur_selection.id].name, name, Len(bes) + 1)]
    /\ last' = Ran("edit_name", None)
    /\ UNCHANGED <<vzs, hsdicts, hss, building, climate_data, cur_selection>>

\* Controller.edit_name(name), up to the update of the tree row
edit_name(name) ==
    /\ Step
    /\ \/ /\ cur_selection.kind = "HeatedSpace"
          /\ LET sel == hss[cur_selection.id]
                 d == vzs[sel.ventilation_zone].heated_spaces
                 hs == hsdicts[d][sel.name]
             IN  IF hs # 0
                 THEN /\ hss' = [hss EXCEPT ![hs].name = name]
                      /\ hsdicts' = [hsdicts EXCEPT ![d] = Rekey(@, sel.name, name, hs)]
                      /\ last' = Ran("edit_name", None)
                 ELSE /\ UNCHANGED <<hss, hsdicts>>
                      /\ last' = Ran("edit_name", KeyError)
          /\ UNCHANGED <<bus, bes, vzdicts, vzs>>
       \/ /\ cur_selection.kind = "VentilationZone"
          /\ LET sel == vzs[cur_selection.id]
                 d == bes[sel.building_entity].ventilation_zones
                 vz == vzdicts[d][sel.name]
             IN  IF vz # 0
                 THEN /\ vzs' = [vzs EXCEPT ![vz].name = name]
                      /\ vzdicts' = [vzdicts EXCEPT ![d] = Rekey(@, sel.name, name, vz)]
                      /\ last' = Ran("edit_name", None)
                 ELSE /\ UNCHANGED <<vzs, vzdicts>>
                      /\ last' = Ran("edit_name", KeyError)
          /\ UNCHANGED <<bus, bes, hsdicts, hss>>
       \/ /\ cur_selection.kind = "BuildingEntity"
          /\ LET sel == bes[cur_selection.id]
                 be == bus[building].building_entities[sel.name]
             IN  IF be # 0
                 THEN /\ bes' = [bes EXCEPT ![be].name = name]
                      /\ bus' = [bus EXCEPT ![building].building_entities =
                                                Rekey(@, sel.name, name, be)]
                      /\ last' = Ran("edit_name", None)
                 ELSE /\ UNCHANGED <<bes, bus>>
                      /\ last' = Ran("edit_name", KeyError)
          /\ UNCHANGED <<vzdicts, vzs, hsdicts, hss>>
       \/ /\ cur_selection.kind = "Building"
          /\ bus' = [bus EXCEPT ![building].name = name]
          /\ last' = Ran("edit_name", None)
          /\ UNCHANGED <<bes, vzdicts, vzs, hsdicts, hss>>
    /\ UNCHANGED <<building, climate_data, cur_selection>>

(***************************************************************************)
(* heaty/model/fileio.py and the file operations of the controller.  A     *)
(* file name is its stem and its suffix (pathlib's Path(filename).suffix); *)
(* what the file system holds under the name is drawn with the call.       *)
(***************************************************************************)
FileNotFoundError == <<4, 0>>

ValueError == <<5, 0>>

\* pickle.UnpicklingError
UnpicklingError == <<6, 0>>

EOFError == <<7, 0>>

Filename(stem, suffix) == [stem |-> stem, suffix |-> suffix]

\* the names the file dialogs can hand over: nothing, a name without
\* suffix, project files and other files
Filenames ==
    {Filename("", ""), Filename("house", ""), Filename("house", ".hlc"),
     Filename("house", ".txt")}

\* the names the export dialog can hand over
CsvFilenames == {Filename("house", ""), Filename("house", ".csv"), Filename("house", ".txt")}

\* what is stored under a name: no file, an empty file, bytes that are not a
\* pickle, the pickle of an object that is not a Building, the pickle of a
\* Building
FileContents == {"absent", "empty", "garbage", "object", "Building"}

\* python's truth value of the file name
Truthy(filename) == filename.stem # "" \/ filename.suffix # ""

\* fileio.load(filename): the Building returned, or the exception raised by
\* load itself, by open or by pickle.load
fileio_load(filename, content) ==
    IF Truthy(filename) /\ filename.suffix = ".hlc"
    THEN IF content = "absent" THEN [raised |-> FileNotFoundError, opened |-> TRUE]
         ELSE IF content = "empty" THEN [raised |-> EOFError, opened |-> TRUE]
         ELSE IF content = "garbage" THEN [raised |-> UnpicklingError, opened |-> TRUE]
         ELSE IF content = "object" THEN [raised |-> ValueError, opened |-> TRUE]
         ELSE [raised |-> None, opened |-> TRUE]
    ELSE [raised |-> FileNotFoundError, opened |-> FALSE]

\* Controller.load(filename): `self.building = fileio.load(filename)`; the
\* unpickled Building is a new object
load(filename, content) ==
    /\ Step
    /\ IF IsNone(fileio_load(filename, content).raised)
       THEN /\ bus' = Append(bus, Building(1))
            /\ building' = Len(bus) + 1
       ELSE UNCHANGED <<bus, building>>
    /\ last' = [op |-> "load", filename |-> filename, content |-> content,
                raised |-> fileio_load(filename, content).raised,
                opened |-> fileio_load(filename, content).opened]
    /\ UNCHANGED <<bes, vzdicts, vzs, hsdicts, hss, climate_data, cur_selection>>

\* the cells of a row: the name and the four values, of which the first
\* that raises ends the export
Row(name, cells) == [name |-> name, raised |-> FirstExc(cells)]

\* ExportToCsv._create_header_row
create_header_row == [name |-> "name", raised |-> None]

\* ExportToCsv._create_bu_row
create_bu_row(u) ==
    Row(bus[u].name, <<BU_Q_trm(u), BU_Q_ven(u), BU_Q_hu(u), BU_Q_load(u)>>)

\* ExportToCsv._create_be_row
create_be_row(b) ==
    Row(bes[b].name, <<BE_Q_trm(b), BE_Q_ven(b), BE_Q_hu(b), BE_Q_load(b)>>)

\* ExportToCsv._create_vz_row
create_vz_row(z) == Row(vzs[z].name, <<VZ_Q_ven(z)>>)

\* ExportToCsv._create_hs_row
create_hs_row(h) ==
    Row(hss[h].name, <<HS_Q_trm(hss[h]), HS_Q_ven(hss[h]), HS_Q_hu(hss[h]),
                       HS_Q_load(hss[h])>>)

\* the rows of a ventilation zone and of its heated spaces
vz_rows(z) ==
    <<create_vz_row(z)>> \o [i \in 1..Len(ZoneSpaces(z)) |-> create_hs_row(ZoneSpaces(z)[i])]

\* the rows of a building entity, of its zones and of their spaces
be_rows(b) ==
    <<create_be_row(b)>> \o Flatten([i \in 1..Len(EntityZones(b)) |-> vz_rows(EntityZones(b)[i])])

\* ExportToCsv._create_rows without the header row
create_rows_bare(u) ==
    <<create_bu_row(u)>>
        \o Flatten([i \in 1..Len(BuildingEntities(u)) |-> be_rows(BuildingEntities(u)[i])])

\* ExportToCsv._create_rows: the rows in the order they are appended
create_rows(u) ==
    <<create_header_row, create_bu_row(u)>>
        \o Flatten([i \in 1..Len(BuildingEntities(u)) |-> be_rows(BuildingEntities(u)[i])])

\* the rows of s that raise
Raising(s) == {i \in DOMAIN s : ~IsNone(s[i].raised)}

\* `writer.writerows(self._rows)`: the number of rows written, none when
\* the creation of a row has raised, as the file is opened afterwards
writerows(rows) ==
    IF Raising(rows) = {}
    THEN [raised |-> None, rows |-> Len(rows)]
    ELSE [raised |-> FirstExc([i \in DOMAIN rows |-> rows[i].raised]), rows |-> 0]

\* ExportToCsv.export
export(u) == writerows(create_rows(u) \o <<>>)

\* fileio.save(filename, building, '.csv')
fileio_save_csv(filename, u) ==
    IF filename.suffix # "" /\ filename.suffix \notin {".csv", ".CSV"}
    THEN [raised |-> ValueError, rows |-> 0]
    ELSE export(u)

\* Controller.to_csv(filename): the building is left as it is; what the
\* call wrote and raised is fileio_save_csv(filename, building)
to_csv(filename) ==
    /\ last' = [op |-> "to_csv", filename |-> filename]
    /\ UNCHANGED <<bus, bes, vzdicts, vzs, hsdicts, hss, building, climate_data,
                   cur_selection, steps>>

\* the names the save dialog can hand over
ProjectFilenames ==
    {Filename("house", ""), Filename("house", ".hlc"), Filename("house", ".HLC"),
     Filename("house", ".txt")}

\* str.lower() of a suffix
Lower(suffix) == IF suffix = ".HLC" THEN ".hlc" ELSE suffix

\* fileio.save(filename, building): the name of the file written and the
\* exception raised.  A name without suffix gets '.hlc' appended; appended to
\* the empty name this gives the name '.hlc', which has no suffix
fileio_save(filename) ==
    LET written == IF Lower(filename.suffix) # "" THEN filename
                   ELSE IF filename.stem = "" THEN Filename(".hlc", "")
                   ELSE Filename(filename.stem, ".hlc")
    IN  IF Lower(written.suffix) # ".hlc"
        THEN [raised |-> ValueError, written |-> Filename("", "")]
        ELSE [raised |-> None, written |-> written]

\* Controller.save(filename): the building is left as it is
save(filename) ==
    /\ last' = [op |-> "save", filename |-> filename,
                raised |-> fileio_save(filename).raised,
                written |-> fileio_save(filename).written]
    /\ UNCHANGED <<bus, bes, vzdicts, vzs, hsdicts, hss, building, climate_data,
                   cur_selection, steps>>

\* HeatedSpace.update_climate_data(climate_data) on the heated space h
update_climate_data(h, i) ==
    /\ Step
    /\ h \in 1..Len(hss)
    /\ hss' = [hss EXCEPT ![h].T_e_d = ClimateData(ClimateParams(i)).T_e_d,
                          ![h].T_e_an = ClimateData(ClimateParams(i)).T_e_an]
    /\ last' = Ran("update_climate_data", None)
    /\ UNCHANGED <<bus, bes, vzdicts, vzs, hsdicts, building, climate_data, cur_selection>>

(***************************************************************************)
(* Modifying a heated space from its own records                           *)
(***************************************************************************)
\* BuildingElement.get_input_parameters of the element's class, with the
\* category that get_bem_data adds: A, U and the other quantities as
\* Quantity, f1 and the factors as the floats the element holds
get_input_parameters(be) ==
    LET base == [category |-> Tag(be.category), A |-> Q(be.A), U |-> Q(be.U),
                 f1 |-> F(be.f1)]
    IN  IF be.category = "exterior"
        THEN base @@ [dU_tb |-> Q(be.dU_tb), f_U |-> F(be.f_U)]
        ELSE IF be.category = "ground"
        THEN base @@ [f_dT_an |-> F(be.f_dT_an), f_gw |-> F(be.f_gw), A_g |-> Q(be.A_g),
                      P |-> Q(be.P), dU_tb |-> Q(be.dU_tb), z |-> Q(be.z)]
        ELSE base @@ [T_adj |-> Q(be.T_adj)]

\* the keys of HeatedSpace.building_elements, in the order of the dict
CategoryOrder ==
    <<"exterior", "adjacent_heated_space", "adjacent_building_entity",
      "adjacent_unheated_space", "ground">>

\* HeatedSpace.get_bem_data
get_bem_data(hs) ==
    Flatten([c \in 1..Len(CategoryOrder) |->
                [k \in 1..Len(hs.building_elements[CategoryOrder[c]]) |->
                    get_input_parameters(hs.building_elements[CategoryOrder[c]][k])]])

\* Controller.fetch_building_element_data
fetch_building_element_data == get_bem_data(hss[cur_selection.id])

\* HeatedSpaceForm._modify_heated_space with the dialog submitted: the
\* dialog is opened with the element records of the selected heated space
\* and hands them back with the parameters of its form
HeatedSpaceForm_modify_heated_space(params) ==
    /\ cur_selection.kind = "HeatedSpace"
    /\ modify_heated_space(params, fetch_building_element_data)

Kinds == {"Building", "BuildingEntity", "VentilationZone", "HeatedSpace"}

\* the dialogs' inputs: a first submission creates with the first parameter
\* set, a modification submits the second
Next ==
    \/ \E kind \in Kinds, n1, n2, n3 \in Names : set_current_selection(kind, n1, n2, n3)
    \/ \E name \in Names : add_building_entity(name)
    \/ \E name \in Names : add_ventilation_zone(name, VZParams(1))
    \/ modify_ventilation_zone(VZParams(2))
    \/ \E name \in Names : add_heated_space(name, HSParams(1), BemRecords(1))
    \/ modify_heated_space(HSParams(2), BemRecords(2))
    \/ delete_current_selection
    \/ \E name \in Names : edit_name(name)

Spec == Init /\ [][Next]_vars

\* the operations that build a tree: the trees the totals are computed on
NextTotals ==
    \/ \E kind \in Kinds, n1, n2, n3 \in Names : set_current_selection(kind, n1, n2, n3)
    \/ \E name \in Names : add_building_entity(name)
    \/ \E name \in Names : add_ventilation_zone(name, VZParams(1))
    \/ modify_ventilation_zone(VZParams(2))
    \/ \E name \in Names : add_heated_space(name, HSParams(1), BemRecords(1))
    \/ modify_heated_space(HSParams(2), BemRecords(2))

SpecTotals == Init /\ [][NextTotals]_vars

\* the construction of zones from every kind of zone parameters, with
\* spaces that have an envelope and spaces that have none
NextZones ==
    \/ \E kind \in Kinds : set_current_selection(kind, 1, 1, 1)
    \/ add_building_entity(1)
    \/ \E i \in ZoneInputs : add_ventilation_zone(1, VZParams(i))
    \/ \E name \in Names, i \in EnvelopeInputs :
           add_heated_space(name, HSParams(5), BemRecords(i))

SpecZones == Init /\ [][NextZones]_vars

\* the construction of heated spaces from every kind of space parameters and
\* element records, under either climate
NextSpaces ==
    \/ \E kind \in Kinds : set_current_selection(kind, 1, 1, 1)
    \/ \E i \in ClimateInputs : set_climate_data_params(i)
    \/ add_building_entity(1)
    \/ add_ventilation_zone(1, VZParams(1))
    \/ \E in \in SpaceInputs : add_heated_space(1, HSParams(in[1]), BemRecords(in[2]))

SpecSpaces == Init /\ [][NextSpaces]_vars

\* the construction of heated spaces on the ground, at every depth
NextGround ==
    \/ \E kind \in Kinds : set_current_selection(kind, 1, 1, 1)
    \/ add_building_entity(1)
    \/ add_ventilation_zone(1, VZParams(1))
    \/ \E i \in GroundInputs : add_heated_space(1, HSParams(1), <<GroundRecords(i)>>)

SpecGround == Init /\ [][NextGround]_vars

\* heated spaces that are built from the five kinds of element records and
\* modified through the dialog, under either climate
NextModify ==
    \/ \E kind \in Kinds : set_current_selection(kind, 1, 1, 1)
    \/ \E i \in ClimateInputs : set_climate_data_params(i)
    \/ add_building_entity(1)
    \/ add_ventilation_zone(1, VZParams(1))
    \/ \E i \in ModifyEnvelopes : add_heated_space(1, HSParams(1), BemRecords(i))
    \/ \E p \in ModifyInputs : HeatedSpaceForm_modify_heated_space(HSParams(p))

SpecModify == Init /\ [][NextModify]_vars

\* heated spaces with elements of every category whose climate data is
\* updated after construction
NextClimate ==
    \/ \E kind \in Kinds : set_current_selection(kind, 1, 1, 1)
    \/ add_building_entity(1)
    \/ add_ventilation_zone(1, VZParams(1))
    \/ \E name \in Names : add_heated_space(name, HSParams(1), BemRecords(2))
    \/ \E h \in 1..MaxOps, i \in ClimateInputs : update_climate_data(h, i)

SpecClimate == Init /\ [][NextClimate]_vars

\* saving the project and opening project files
NextSave ==
    \/ \E kind \in Kinds, name \in Names : set_current_selection(kind, name, 1, 1)
    \/ \E name \in Names : add_building_entity(name)
    \/ \E filename \in ProjectFilenames : save(filename)
    \/ \E filename \in ProjectFilenames, content \in {"absent", "Building"} :
           load(filename, content)

SpecSave == Init /\ [][NextSave]_vars

\* the opening of project files while building entities are added
NextFiles ==
    \/ \E kind \in Kinds, name \in Names : set_current_selection(kind, name, 1, 1)
    \/ \E name \in Names : add_building_entity(name)
    \/ \E filename \in Filenames, content \in FileContents : load(filename, content)

SpecFiles == Init /\ [][NextFiles]_vars

\* the construction of a tree and its export
NextExport ==
    \/ \E kind \in Kinds : set_current_selection(kind, 1, 1, 1)
    \/ add_building_entity(1)
    \/ add_ventilation_zone(1, VZParams(1))
    \/ \E i \in EnvelopeInputs : add_heated_space(1, HSParams(1), BemRecords(i))
    \/ \E filename \in CsvFilenames : to_csv(filename)

SpecExport == Init /\ [][NextExport]_vars

(***************************************************************************)
(* Replacement through the factories                                       *)
(***************************************************************************)
\* the zone ids of the heap before a step
ZoneIds == 1..Len(vzs)

\* what VentilationZoneFactory.create(name, params), called for the building
\* entity b, has done in a step when b held a zone under name: the entry is
\* an instance that did not exist before, it is the zone the constructor
\* makes of params, and its heated_spaces maps the same names to the same,
\* unchanged, heated-space instances
ZoneReplaced(b, name, params) ==
    LET d == bes[b].ventilation_zones
        old == vzdicts[d][name]
        new == vzdicts'[d][name]
    IN  old # 0 =>
            /\ new \notin ZoneIds \cup {0}
            /\ vzs'[new] = VentilationZone(b, name, params, vzs'[new].heated_spaces)
            /\ hsdicts'[vzs'[new].heated_spaces] = hsdicts[vzs[old].heated_spaces]
            /\ \A n \in DictKeys(hsdicts[vzs[old].heated_spaces]) :
                   LET h == hsdicts[vzs[old].heated_spaces][n]
                   IN  hss'[h] = hss[h]

\* C1: when VentilationZoneFactory.create(name, params) is called (by
\* add_ventilation_zone or by modify_ventilation_zone) and the building entity
\* holds a zone under name, the entry under name becomes a new VentilationZone
\* instance that carries params and whose heated_spaces holds the same
\* heated-space instances under the same names.
C1_ReplacePreservesChildren ==
    [][\A name \in Names, i \in VZInputs :
           /\ add_ventilation_zone(name, VZParams(i))
                  => ZoneReplaced(cur_selection.id, name, VZParams(i))
           /\ (modify_ventilation_zone(VZParams(i)) /\ name = vzs[cur_selection.id].name)
                  => ZoneReplaced(vzs[cur_selection.id].building_entity, name,
                                  VZParams(i))]_vars

\* a zone with the two heated spaces A and B has just been replaced
C1_Witness ==
    /\ last.op = "modify_ventilation_zone"
    /\ \E old \in ZoneIds, b \in 1..Len(bes) :
           LET new == vzdicts[bes[b].ventilation_zones][vzs[old].name]
           IN  /\ new = Len(vzs)
               /\ old # new
               /\ vzs[old].heated_spaces = vzs[new].heated_spaces
               /\ vzs[new].q_env_50 # vzs[old].q_env_50
               /\ DictKeys(hsdicts[vzs[new].heated_spaces]) = Names

(***************************************************************************)
(* The tree the controller shows: what is reachable from the building      *)
(* through the name-keyed collections                                      *)
(***************************************************************************)
SetOf(seq) == {seq[i] : i \in DOMAIN seq}

TreeEntities == SetOf(BuildingEntities(building))

TreeZones == UNION {SetOf(EntityZones(b)) : b \in TreeEntities}

TreeSpaces == UNION {SetOf(ZoneSpaces(z)) : z \in TreeZones}

\* VentilationZone.Q_ven of zone z when every member space computes its
\* V_leak_ATD against z itself
VZ_Q_ven_own(z) ==
    LET VT(hs) ==
            VentilationLoss(hs, RMax(RAdd(V_leak_ATD_in(hs, z), hs.V_open),
                                     RSub(RMul(vzs[z].f_iz, V_min(hs)), V_tech(hs))))
    IN  Qty(RMul(Rat(34, 100), SumOverSpaces(z, VT)))

\* C2: the Q_ven of every zone of the tree, and the V_leak_ATD, V_env and
\* Q_ven of every heated space the zone holds, are the values computed from
\* the parameters of that zone, the one that is in the tree now, also after
\* a zone has been replaced through create: no value is stale.
C2_TotalsNeverStale ==
    \A z \in TreeZones :
        /\ VZ_Q_ven(z) = VZ_Q_ven_own(z)
        /\ \A h \in SetOf(ZoneSpaces(z)) :
               /\ V_leak_ATD(hss[h]) = V_leak_ATD_in(hss[h], z)
               /\ HS_V_env(hss[h]) = HS_V_env_in(hss[h], z)
               /\ HS_Q_ven(hss[h]) = HS_Q_ven_in(hss[h], z)

\* C3: in every reachable state, each heated space a zone of the tree holds
\* refers back to that very zone, and each zone a building entity of the tree
\* holds refers back to that very building entity.
C3_BackReferences ==
    /\ \A z \in TreeZones : \A h \in SetOf(ZoneSpaces(z)) : hss[h].ventilation_zone = z
    /\ \A b \in TreeEntities : \A z \in SetOf(EntityZones(b)) : vzs[z].building_entity = b

\* the building-entity and heated-space ids of the heap before a step
EntityIds == 1..Len(bes)

SpaceIds == 1..Len(hss)

\* what BuildingEntityFactory.create(name), called for the building u, has
\* done in a step when u held an entity under name
EntityReplaced(u, name) ==
    LET old == bus[u].building_entities[name]
        new == bus'[u].building_entities[name]
    IN  old # 0 =>
            /\ new \notin EntityIds \cup {0}
            /\ bes'[new].name = name
            /\ vzdicts'[bes'[new].ventilation_zones] = vzdicts[bes[old].ventilation_zones]
            /\ vzs' = vzs
            /\ \A n \in Names \ {name} :
                   LET other == bus[u].building_entities[n]
                   IN  /\ bus'[u].building_entities[n] = other
                       /\ other # 0 =>
                              /\ bes'[other] = bes[other]
                              /\ vzdicts'[bes[other].ventilation_zones]
                                     = vzdicts[bes[other].ventilation_zones]

\* C4: when BuildingEntityFactory.create(name) is called and the building
\* holds an entity under name, the entry under name becomes a new
\* BuildingEntity instance that owns the same ventilation-zone instances under
\* the same names, and every other entry of building_entities is unchanged.
C4_EntityReplaceKeepsZones ==
    [][\A name \in Names :
           add_building_entity(name) => EntityReplaced(cur_selection.id, name)]_vars

\* a building entity that owns a zone has just been replaced, beside another
\* building entity
C4_Witness ==
    /\ last.op = "add_building_entity"
    /\ \E old \in EntityIds :
           LET new == bus[building].building_entities[bes[old].name]
           IN  /\ new = Len(bes)
               /\ old # new
               /\ bes[old].ventilation_zones = bes[new].ventilation_zones
               /\ DictKeys(vzdicts[bes[new].ventilation_zones]) # {}
    /\ DictKeys(bus[building].building_entities) = Names

\* the fields of a heated space other than its building elements
WithoutElements(hs) == [hs EXCEPT !.building_elements = [c \in CATEGORIES |-> <<>>]]

\* HeatedSpaceFactory.create(name, params, bem_records), called for zone z,
\* has in a step put a new instance with the supplied params under a name the
\* zone held
SpaceReplaced(z, name, params) ==
    LET d == vzs[z].heated_spaces
        new == hsdicts'[d][name]
    IN  /\ hsdicts[d][name] # 0
        /\ new \notin SpaceIds \cup {0}
        /\ WithoutElements(hss'[new]) = HeatedSpace(z, name, climate_data, params)

\* the building elements the heated space under name in zone z has after a
\* step
ElementsAfter(z, name) == hss'[hsdicts'[vzs[z].heated_spaces][name]].building_elements

\* the building elements the heated space under name in zone z has
ElementsBefore(z, name) == hss[hsdicts[vzs[z].heated_spaces][name]].building_elements

\* C5: when HeatedSpaceFactory.create(name, params, bem_records) is called and
\* the zone holds a heated space under name, a new HeatedSpace instance is
\* built with the supplied params and the building elements of the old
\* instance are reattached onto the new instance.
C5_ElementsReattached ==
    [][\A name \in Names, i \in HSInputs :
           /\ (add_heated_space(name, HSParams(i), BemRecords(i))
                   /\ SpaceReplaced(cur_selection.id, name, HSParams(i)))
                  => ElementsAfter(cur_selection.id, name)
                         = ElementsBefore(cur_selection.id, name)
           /\ (modify_heated_space(HSParams(i), BemRecords(i))
                   /\ name = hss[cur_selection.id].name
                   /\ SpaceReplaced(hss[cur_selection.id].ventilation_zone, name,
                                    HSParams(i)))
                  => ElementsAfter(hss[cur_selection.id].ventilation_zone, name)
                         = ElementsBefore(hss[cur_selection.id].ventilation_zone, name)
      ]_vars

\* the building elements that are made of bem_records for the heated space
\* that gets slot hsid in zone z
ElementsOf(z, name, params, bem_records, hsid) ==
    add_building_elements(HeatedSpace(z, name, climate_data, params), hsid,
                          bem_records).hs.building_elements

\* the heated space under name in zone z has, after a step, the elements made
\* of bem_records, each of them an element of that instance
ElementsRebuilt(z, name, params, bem_records) ==
    LET new == hsdicts'[vzs[z].heated_spaces][name]
    IN  /\ ElementsAfter(z, name) = ElementsOf(z, name, params, bem_records, new)
        /\ \A c \in CATEGORIES :
               \A k \in DOMAIN ElementsAfter(z, name)[c] :
                   ElementsAfter(z, name)[c][k].heated_space = new

\* C5 as the code has it: when HeatedSpaceFactory.create(name, params,
\* bem_records) is called and the zone holds a heated space under name, a new
\* HeatedSpace instance is built with the supplied params, and its building
\* elements are the ones made of the supplied bem_records, which belong to
\* the new instance; no building element of the old instance is carried over.
C5_ElementsRebuilt ==
    [][\A name \in Names, i \in HSInputs :
           /\ (add_heated_space(name, HSParams(i), BemRecords(i))
                   /\ hsdicts[vzs[cur_selection.id].heated_spaces][name] # 0)
                  => /\ SpaceReplaced(cur_selection.id, name, HSParams(i))
                     /\ ElementsRebuilt(cur_selection.id, name, HSParams(i),
                                        BemRecords(i))
           /\ (modify_heated_space(HSParams(i), BemRecords(i))
                   /\ name = hss[cur_selection.id].name
                   /\ hsdicts[vzs[hss[cur_selection.id].ventilation_zone].heated_spaces][name] # 0)
                  => /\ SpaceReplaced(hss[cur_selection.id].ventilation_zone, name,
                                      HSParams(i))
                     /\ ElementsRebuilt(hss[cur_selection.id].ventilation_zone, name,
                                        HSParams(i), BemRecords(i))
      ]_vars

\* a heated space has just been replaced by one with other building elements
C5_Witness ==
    /\ last.op = "modify_heated_space"
    /\ cur_selection.kind = "HeatedSpace"
    /\ LET old == hss[cur_selection.id]
           new == hsdicts[vzs[old.ventilation_zone].heated_spaces][old.name]
       IN  /\ new = Len(hss)
           /\ new # cur_selection.id
           /\ hss[new].building_elements # old.building_elements
           /\ hss[new].building_elements["ground"] # <<>>

(***************************************************************************)
(* Creation, deletion and renaming                                         *)
(***************************************************************************)
\* the objects and the dict objects of the heap before a step are the same
\* after it, but for the dict objects in `but`
HeapKept(butVz, butHs) ==
    /\ \A b \in EntityIds : bes'[b] = bes[b]
    /\ \A z \in ZoneIds : vzs'[z] = vzs[z]
    /\ \A h \in SpaceIds : hss'[h] = hss[h]
    /\ \A d \in DOMAIN vzdicts \ butVz : vzdicts'[d] = vzdicts[d]
    /\ \A d \in DOMAIN hsdicts \ butHs : hsdicts'[d] = hsdicts[d]

\* BuildingEntityFactory.create(name) for building u, name absent
EntityInserted(u, name) ==
    LET new == bus'[u].building_entities[name]
    IN  bus[u].building_entities[name] = 0 =>
            /\ new \notin EntityIds \cup {0}
            /\ bus' = [bus EXCEPT ![u].building_entities[name] = new]
            /\ bes'[new].ventilation_zones \notin DOMAIN vzdicts
            /\ vzdicts'[bes'[new].ventilation_zones] = EmptyDict
            /\ HeapKept({}, {})

\* VentilationZoneFactory.create(name, params) for building entity b, name
\* absent
ZoneInserted(b, name) ==
    LET d == bes[b].ventilation_zones
        new == vzdicts'[d][name]
    IN  vzdicts[d][name] = 0 =>
            /\ new \notin ZoneIds \cup {0}
            /\ vzdicts'[d] = [vzdicts[d] EXCEPT ![name] = new]
            /\ vzs'[new].heated_spaces \notin DOMAIN hsdicts
            /\ hsdicts'[vzs'[new].heated_spaces] = EmptyDict
            /\ bus' = bus
            /\ HeapKept({d}, {})

\* HeatedSpaceFactory.create(name, params, bem_records) for zone z, name
\* absent, when the call returned
SpaceInserted(z, name) ==
    LET d == vzs[z].heated_spaces
        new == hsdicts'[d][name]
    IN  (hsdicts[d][name] = 0 /\ IsNone(last'.raised)) =>
            /\ new \notin SpaceIds \cup {0}
            /\ hsdicts'[d] = [hsdicts[d] EXCEPT ![name] = new]
            /\ bus' = bus
            /\ HeapKept({}, {d})

\* C6: for each of the three factories, create with a name that is not in the
\* parent collection inserts exactly one new entry under that name (with an
\* empty child collection for building entities and ventilation zones) and
\* leaves every other entry of the parent and every other node unchanged.
C6_CreateInsertsOne ==
    [][\A name \in Names :
           /\ add_building_entity(name) => EntityInserted(cur_selection.id, name)
           /\ \A i \in VZInputs :
                  /\ add_ventilation_zone(name, VZParams(i))
                         => ZoneInserted(cur_selection.id, name)
                  /\ (modify_ventilation_zone(VZParams(i))
                          /\ name = vzs[cur_selection.id].name)
                         => ZoneInserted(vzs[cur_selection.id].building_entity, name)
           /\ \A i \in HSInputs :
                  /\ add_heated_space(name, HSParams(i), BemRecords(i))
                         => SpaceInserted(cur_selection.id, name)
                  /\ (modify_heated_space(HSParams(i), BemRecords(i))
                          /\ name = hss[cur_selection.id].name)
                         => SpaceInserted(hss[cur_selection.id].ventilation_zone, name)
      ]_vars

\* a second zone has just been added beside a zone that holds a heated space
C6_Witness ==
    /\ last.op = "add_ventilation_zone"
    /\ cur_selection.kind = "BuildingEntity"
    /\ LET d == vzdicts[bes[cur_selection.id].ventilation_zones]
       IN  /\ DictKeys(d) = Names
           /\ \E n \in Names :
                  /\ d[n] = Len(vzs)
                  /\ DictKeys(hsdicts[vzs[d[n]].heated_spaces]) = {}
                  /\ \A m \in Names \ {n} :
                         /\ d[m] < d[n]
                         /\ DictKeys(hsdicts[vzs[d[m]].heated_spaces]) # {}

\* the selected object is a node of the tree
SelectionInTree ==
    CASE cur_selection.kind = "HeatedSpace" -> cur_selection.id \in TreeSpaces
      [] cur_selection.kind = "VentilationZone" -> cur_selection.id \in TreeZones
      [] cur_selection.kind = "BuildingEntity" -> cur_selection.id \in TreeEntities
      [] cur_selection.kind = "Building" -> cur_selection.id = building

\* the heated spaces below a zone, and the zones and heated spaces below a
\* building entity
SpacesBelowZone(z) == SetOf(ZoneSpaces(z))

ZonesBelowEntity(b) == SetOf(EntityZones(b))

SpacesBelowEntity(b) == UNION {SpacesBelowZone(z) : z \in ZonesBelowEntity(b)}

\* what a step of delete_current_selection has done to the tree
SelectionDeleted ==
    LET id == cur_selection.id
    IN  /\ bes' = bes /\ vzs' = vzs /\ hss' = hss /\ building' = building
        /\ CASE cur_selection.kind = "HeatedSpace" ->
                    LET z == CHOOSE z \in TreeZones : id \in SpacesBelowZone(z)
                        d == vzs[z].heated_spaces
                    IN  /\ hsdicts[d][hss[id].name] = id
                        /\ hsdicts' = [hsdicts EXCEPT ![d][hss[id].name] = 0]
                        /\ bus' = bus /\ vzdicts' = vzdicts
                        /\ TreeSpaces' = TreeSpaces \ {id}
                        /\ TreeZones' = TreeZones
                        /\ TreeEntities' = TreeEntities
             [] cur_selection.kind = "VentilationZone" ->
                    LET b == CHOOSE b \in TreeEntities : id \in ZonesBelowEntity(b)
                        d == bes[b].ventilation_zones
                    IN  /\ vzdicts[d][vzs[id].name] = id
                        /\ vzdicts' = [vzdicts EXCEPT ![d][vzs[id].name] = 0]
                        /\ bus' = bus /\ hsdicts' = hsdicts
                        /\ TreeZones' = TreeZones \ {id}
                        /\ TreeSpaces' = TreeSpaces \ SpacesBelowZone(id)
                        /\ TreeEntities' = TreeEntities
             [] cur_selection.kind = "BuildingEntity" ->
                    /\ bus[building].building_entities[bes[id].name] = id
                    /\ bus' = [bus EXCEPT ![building].building_entities[bes[id].name] = 0]
                    /\ vzdicts' = vzdicts /\ hsdicts' = hsdicts
                    /\ TreeEntities' = TreeEntities \ {id}
                    /\ TreeZones' = TreeZones \ ZonesBelowEntity(id)
                    /\ TreeSpaces' = TreeSpaces \ SpacesBelowEntity(id)
             [] cur_selection.kind = "Building" ->
                    /\ bus' = [bus EXCEPT ![building].building_entities = EmptyDict]
                    /\ vzdicts' = vzdicts /\ hsdicts' = hsdicts
                    /\ TreeEntities' = {}

\* C7: delete_current_selection with a building entity, ventilation zone or
\* heated space of the tree selected removes exactly that entry from the
\* collection of its parent in one step; afterwards neither the object nor
\* any of its descendants is in the tree, and its siblings are unchanged.
\* With the building selected all building entities are removed and the
\* building, the same instance under the same name, remains.
C7_DeleteRemovesSubtree ==
    [][(delete_current_selection /\ SelectionInTree) => SelectionDeleted]_vars

\* a zone that holds a heated space has just been deleted, beside another zone
C7_Witness ==
    /\ last = Ran("delete_current_selection", None)
    /\ cur_selection.kind = "VentilationZone"
    /\ cur_selection.id \notin TreeZones
    /\ DictKeys(hsdicts[vzs[cur_selection.id].heated_spaces]) # {}
    /\ SpacesBelowZone(cur_selection.id) \cap TreeSpaces = {}
    /\ TreeZones # {}

\* the building has just been cleared of its entities
C7_WitnessBuilding ==
    /\ last = Ran("delete_current_selection", None)
    /\ cur_selection.kind = "Building"
    /\ TreeEntities = {}
    /\ Len(bes) > 0

\* what a step of edit_name(name) has done with the selected building entity;
\* the totals of a zone (VZ_Q_ven) are computed from the zones, the
\* heated_spaces dicts and the heated spaces alone, which the step leaves as
\* they are
EntityRenamed(name) ==
    LET id == cur_selection.id
        old == bes[id].name
    IN  /\ bus'[building].building_entities[name] = id
        /\ name # old => bus'[building].building_entities[old] = 0
        /\ bes'[id] = [bes[id] EXCEPT !.name = name]
        /\ bes'[id].ventilation_zones = bes[id].ventilation_zones
        /\ vzdicts' = vzdicts /\ vzs' = vzs /\ hsdicts' = hsdicts /\ hss' = hss

\* C8: edit_name(new) with a building entity of the tree selected leaves the
\* same BuildingEntity instance in the building, under the key new (the old
\* key is absent when new differs from the old name), with the identical
\* ventilation_zones mapping: its zones and their totals are the same before
\* and after.
C8_RenameKeepsEntity ==
    [][\A name \in Names :
           (edit_name(name) /\ cur_selection.kind = "BuildingEntity" /\ SelectionInTree)
               => EntityRenamed(name)]_vars

\* a building entity with a zone that holds a heated space has just been
\* renamed
C8_Witness ==
    /\ last = Ran("edit_name", None)
    /\ cur_selection.kind = "BuildingEntity"
    /\ cur_selection.id \in TreeEntities
    /\ SpacesBelowEntity(cur_selection.id) # {}

(***************************************************************************)
(* Totals                                                                  *)
(***************************************************************************)
\* the sum of hs.Q_trm over a list of heated spaces
SpacesQ_trm(ids) == LET a(i) == HS_Q_trm(hss[i]) IN SumOver(ids, a)

Q_trmThrough(hs, category) ==
    RMul(QtyCall(HT(hs, category)), RSub(hs.T_i_d, hs.T_e_d))

\* the sum, over a list of heated spaces, of hs.Q_trm without the parts that
\* go through the elements of the categories in `within`
SpacesQ_trmWithout(ids, within) ==
    LET a(i) == RSub(HS_Q_trm(hss[i]),
                     RSumSeq([k \in 1..Len(within) |-> Q_trmThrough(hss[i], within[k])]))
    IN  SumOver(ids, a)

C10_QloadIsSum ==
    /\ \A h \in TreeSpaces :
           HS_Q_load(hss[h])
               = RSub(RAdd(RAdd(HS_Q_trm(hss[h]), HS_Q_ven(hss[h])), HS_Q_hu(hss[h])),
                      HS_Q_gain(hss[h]))
    /\ \A b \in TreeEntities :
           BE_Q_load(b)
               = RSub(RAdd(RAdd(BE_Q_trm(b), BE_Q_ven(b)), BE_Q_hu(b)), BE_Q_gain(b))
    /\ BU_Q_load(building)
           = RSub(RAdd(RAdd(BU_Q_trm(building), BU_Q_ven(building)), BU_Q_hu(building)),
                  BU_Q_gain(building))

(***************************************************************************)
(* Ventilation totals of the building entities and of the building         *)
(***************************************************************************)
\* C11: the Q_ven of every building entity is the sum of the Q_ven of its
\* ventilation zones, and the Q_ven of the building is the sum of the Q_ven
\* of its building entities
C11_QvenSumsZones ==
    /\ \A b \in TreeEntities :
           BE_Q_ven(b) = (LET a(z) == VZ_Q_ven(z) IN SumOver(EntityZones(b), a))
    /\ BU_Q_ven(building) =
           (LET a(b) == BE_Q_ven(b) IN SumOver(BuildingEntities(building), a))

(***************************************************************************)
(* The climate data a heated space is built with                           *)
(***************************************************************************)
\* the building elements of the heated space record hs, of every category
AllElements(hs) ==
    UNION {SetOf(hs.building_elements[category]) : category \in CATEGORIES}

\* the heated space record hs and its elements carry the external
\* temperatures of the climate data c
BuiltUnder(hs, c) ==
    /\ hs.T_e_d = c.T_e_d
    /\ hs.T_e_an = c.T_e_an
    /\ \A be \in AllElements(hs) :
           /\ be.T_e_d = c.T_e_d
           /\ be.category = "exterior" => be.T_adj = c.T_e_d
           /\ be.category = "ground" => be.T_adj = c.T_e_an

\* C12: replacing the climate data leaves every existing heated space and
\* every existing building element as it was, with the external temperatures
\* it was built with; a heated space created or recreated afterwards carries
\* the external temperatures of the climate data in force at that moment
C12_ClimateCopiedAtCreation ==
    [][/\ \A h \in 1..Len(hss) : hss'[h] = hss[h]
       /\ last'.op = "set_climate_data_params" => hss' = hss /\ hsdicts' = hsdicts
       /\ \A h \in (Len(hss) + 1)..Len(hss') : BuiltUnder(hss'[h], climate_data)]_vars

\* a heated space with an element in the tree, built under the former climate
\* data, right after the climate data were replaced by different ones
C12_Witness ==
    /\ last.op = "set_climate_data_params"
    /\ \E h \in TreeSpaces :
           /\ AllElements(hss[h]) # {}
           /\ hss[h].T_e_d # climate_data.T_e_d
           /\ \A be \in AllElements(hss[h]) : be.T_e_d = hss[h].T_e_d

\* a heated space recreated after the climate data were replaced carries the
\* new external temperatures, while the instance it replaced keeps the old
C12_WitnessRecreated ==
    /\ last.op = "add_heated_space"
    /\ \E h \in TreeSpaces :
           /\ AllElements(hss[h]) # {}
           /\ BuiltUnder(hss[h], climate_data)
           /\ \E g \in 1..Len(hss) :
                  /\ g \notin TreeSpaces
                  /\ hss[g].name = hss[h].name
                  /\ hss[g].T_e_d # climate_data.T_e_d

(***************************************************************************)
(* Failing construction of a heated space                                  *)
(***************************************************************************)
\* the input of add_heated_space names a category that does not exist, or
\* asks for elements in a space whose internal design temperature is the
\* external design temperature
Unconstructible(in) ==
    \/ \E k \in DOMAIN BemRecords(in[2]) : BemRecords(in[2])[k].category.v \notin CATEGORIES
    \/ /\ BemRecords(in[2]) # <<>>
       /\ Unpack(HSParams(in[1]), "T_i_d", Zero) = climate_data.T_e_d

\* C13: a creation of a heated space that fails, because of an unknown
\* category, because T_i_d equals T_e_d or because of any other exception of
\* the constructors, reports the exception and leaves the heated spaces of
\* every zone, and every heated space with its building elements, as before
C13_FailedCreateKeepsModel ==
    [][/\ \A in \in SpaceInputs :
              Unconstructible(in) /\ add_heated_space(1, HSParams(in[1]), BemRecords(in[2]))
                  => IsExc(last'.raised)
       /\ last'.op = "add_heated_space" /\ steps' # steps /\ ~IsNone(last'.raised)
              => /\ IsExc(last'.raised)
                 /\ hss' = hss
                 /\ hsdicts' = hsdicts
                 /\ vzs' = vzs /\ vzdicts' = vzdicts]_vars

\* a creation under the name of an existing heated space has failed on a
\* record of an unknown category, which came after a valid record, and the
\* existing space is in the tree with its element
C13_Witness ==
    /\ last = Ran("add_heated_space", KeyError)
    /\ \E h \in TreeSpaces : hss[h].name = 1 /\ AllElements(hss[h]) # {}

\* the same with a creation that failed because T_i_d equals T_e_d
C13_WitnessTemperature ==
    /\ last = Ran("add_heated_space", ZeroDivisionError)
    /\ \E h \in TreeSpaces : hss[h].name = 1 /\ AllElements(hss[h]) # {}

(***************************************************************************)
(* Building elements where T_i_d equals T_e_d                              *)
(***************************************************************************)
\* a record of every category, each without f1 and with f1 = 0.5
ElementRecords ==
    LET rs == SetOf(BemRecords(2))
    IN  rs \cup {[r EXCEPT !.f1 = F(Rat(1, 2))] : r \in rs}

\* C14: in a heated space whose T_i_d equals its T_e_d the construction of a
\* building element of any category, with or without f1, raises the division
\* error and adds no element; no heated space with T_i_d equal to T_e_d ever
\* holds an element
C14_UndefinedAdjustmentReported ==
    /\ \A p \in {in[1] : in \in SpaceInputs} :
           Unpack(HSParams(p), "T_i_d", Zero) = climate_data.T_e_d =>
               LET hs == HeatedSpace(1, 1, climate_data, HSParams(p))
               IN  \A r \in ElementRecords :
                       add_building_element(hs, 1, r)
                           = [hs |-> hs, raised |-> ZeroDivisionError]
    /\ \A h \in 1..Len(hss) :
           hss[h].T_i_d = hss[h].T_e_d => AllElements(hss[h]) = {}

\* a heated space with T_i_d equal to T_e_d exists without elements, and
\* the creation of such a space with elements has just failed on the division
C14_Witness ==
    /\ last = Ran("add_heated_space", ZeroDivisionError)
    /\ \E h \in TreeSpaces :
           /\ hss[h].T_i_d = hss[h].T_e_d
           /\ hss[h].T_e_d = climate_data.T_e_d

(***************************************************************************)
(* What unpack hands to the constructors                                   *)
(***************************************************************************)
\* the defaults VentilationZone.__init__ declares for its parameters
ZoneDefaults ==
    [q_env_50 |-> Zero, V_ATD_d |-> Zero, dP_ATD_d |-> Num(4),
     v_leak |-> Rat(67, 100), f_fac |-> Num(12), f_V |-> Rat(5, 100),
     f_dir |-> Num(2), f_iz |-> Rat(1, 2)]

\* the value of the parameter as a float when it is supplied, a Quantity
\* being converted, and the declared default when it is not
Supplied(params, param, default_value) ==
    IF param \notin DOMAIN params THEN default_value
    ELSE IF params[param].qty THEN QtyCall(params[param].v)
    ELSE params[param].v

\* C15: every ventilation zone holds, for each of its parameters, what
\* unpack is to return for one of the parameter mappings: the converted
\* Quantity, the bare number itself (zero included), or the declared default
\* (0.0 included) when the parameter is absent
C15_UnpackValueOrDefault ==
    \A z \in 1..Len(vzs) :
        \E i \in ZoneInputs :
            \A param \in DOMAIN ZoneDefaults :
                vzs[z][param] = Supplied(VZParams(i), param, ZoneDefaults[param])

(***************************************************************************)
(* Opening a project file                                                  *)
(***************************************************************************)
\* C16: load has three outcomes.  It raises FileNotFoundError, without
\* opening a file, when the name is empty or has not the suffix .hlc (and
\* when there is no file of that name); it raises ValueError when the suffix
\* is .hlc and what the file holds is not a Building; it returns the Building
\* otherwise.  When it raises, the controller keeps its building
C16_LoadThreeOutcomes ==
    [][last'.op = "load" /\ steps' # steps =>
          /\ IF ~Truthy(last'.filename) \/ last'.filename.suffix # ".hlc"
             THEN last'.raised = FileNotFoundError /\ ~last'.opened
             ELSE IF last'.content = "absent" THEN last'.raised = FileNotFoundError
             ELSE IF last'.content # "Building" THEN last'.raised = ValueError
             ELSE /\ IsNone(last'.raised)
                  /\ building' = Len(bus')
                  /\ building' # building
          /\ ~IsNone(last'.raised) => building' = building /\ bus' = bus]_vars

(***************************************************************************)
(* The rows of the CSV export                                              *)
(***************************************************************************)
\* the building entities, ventilation zones and heated spaces in the tree
TreeSize == Cardinality(TreeEntities) + Cardinality(TreeZones) + Cardinality(TreeSpaces)

\* what the export that has just run wrote and raised
Exported == fileio_save_csv(last.filename, building)

C18_VleakATDZero ==
    \A h \in TreeSpaces :
        LET z == hss[h].ventilation_zone
        IN  VZ_A_env(z) = Zero \/ vzs[z].V_ATD_d = Zero => V_leak_ATD(hss[h]) = Zero

\* the leakage of the zone at 50 Pa: q_env_50 * A_env + V_ATD_50
Leakage50(z) == RAdd(RMul(vzs[z].q_env_50, VZ_A_env(z)), V_ATD_50(z))

\* C19: whatever the parameters of a zone (dP_ATD_d = 0 and f_V = 0
\* included) and whatever its heated spaces, its f_e, a_ATD, V_inf_add,
\* V_env, V_leak and V_ATD and the V_env of each of its spaces raise no
\* division error; f_e is 1 and a_ATD is 0 where q_env_50 * A_env + V_ATD_50
\* is zero, and the V_env of a space is 0 where the V_env of the zone is zero
C19_NoDivisionError ==
    \A z \in TreeZones :
        /\ ZeroDivisionError \notin
               {f_e(z), a_ATD(z), V_inf_add(z), VZ_V_env(z), V_leak(z), V_ATD(z)}
        /\ \A h \in SetOf(ZoneSpaces(z)) : HS_V_env_in(hss[h], z) # ZeroDivisionError
        /\ Leakage50(z) = Zero => f_e(z) = One /\ a_ATD(z) = Zero
        /\ VZ_V_env(z) = Zero => \A h \in SetOf(ZoneSpaces(z)) : HS_V_env_in(hss[h], z) = Zero

(***************************************************************************)
(* The mean internal surface temperature of the building elements          *)
(***************************************************************************)
\* T_i_d below a room height of 4 m, T_i_d + gT_a * (h_r - h_occ) + dT_s
\* from 4 m on
AdjustedT_sm(hs) ==
    IF GE4(hs.h_r)
    THEN RAdd(RAdd(hs.T_i_d, RMul(hs.gT_a, RSub(hs.h_r, hs.h_occ))), hs.dT_s)
    ELSE hs.T_i_d

\* C20: the T_sm of every building element is the T_i_d of its heated space
\* when the room height is below 4 m and T_i_d + gT_a * (h_r - h_occ) + dT_s
\* when it is 4 m or more; the elements of a space of either kind are built
\* with that value
C20_TsmAdjustedFrom4m ==
    [][/\ \A h \in 1..Len(hss') : \A be \in AllElements(hss'[h]) :
              be.T_sm = AdjustedT_sm(hss'[h])
       /\ \A in \in SpaceInputs :
              /\ ~Unconstructible(in)
              /\ BemRecords(in[2]) # <<>>
              /\ add_heated_space(1, HSParams(in[1]), BemRecords(in[2]))
              => /\ IsNone(last'.raised)
                 /\ Len(hss') = Len(hss) + 1
                 /\ AllElements(hss'[Len(hss')]) # {}]_vars

(***************************************************************************)
(* The mean internal air temperature of a heated space                     *)
(***************************************************************************)
\* T_i_d below a room height of 4 m, T_i_d + gT_a * (0.5 * h_r - h_occ) -
\* dT_rad from 4 m on
AdjustedT_ia(hs) ==
    IF GE4(hs.h_r)
    THEN RSub(RAdd(hs.T_i_d, RMul(hs.gT_a, RSub(RMul(Rat(1, 2), hs.h_r), hs.h_occ))),
              hs.dT_rad)
    ELSE hs.T_i_d

\* C21: the T_ia of every heated space is its T_i_d when the room height is
\* below 4 m and T_i_d + gT_a * (0.5 * h_r - h_occ) - dT_rad when it is 4 m
\* or more
C21_TiaAdjustedFrom4m == \A h \in TreeSpaces : T_ia(hss[h]) = AdjustedT_ia(hss[h])

(***************************************************************************)
(* The coefficient set of a ground element                                 *)
(***************************************************************************)
\* the coefficient set the depth of a record asks for: the first at depth
\* zero, which is also the default of the depth, the second below ground
DepthSet(r) ==
    IF "z" \notin DOMAIN r THEN 1
    ELSE IF r.z.v = Zero THEN 1
    ELSE IF Less(Zero, r.z.v) THEN 2 ELSE 0

\* C22: the construction of a ground element selects exactly one coefficient
\* set before U_equiv is computed, the first when the depth is zero or
\* omitted, the second when it is positive: the heated space is created and
\* its ground element carries that set; no ground element holds neither set
C22_GroundSelectsOneSet ==
    [][/\ \A h \in 1..Len(hss') : \A be \in AllElements(hss'[h]) :
              be.category = "ground" => be.branch \in {1, 2}
       /\ \A i \in GroundInputs :
              add_heated_space(1, HSParams(1), <<GroundRecords(i)>>)
              => /\ IsNone(last'.raised)
                 /\ Len(hss') = Len(hss) + 1
                 /\ \E be \in AllElements(hss'[Len(hss')]) :
                        be.branch = DepthSet(GroundRecords(i))]_vars

(***************************************************************************)
(* The ventilation heat loss of a ventilation zone                         *)
(***************************************************************************)
\* 0.34 times the sum over the member spaces of zone z of
\* max(V_leak_ATD + V_open, f_iz * V_min - V_tech) * (T_ia - T_e_d)
\* + V_sup * (T_ia - T_sup) + V_trf * (T_ia - T_trf)
ZoneVentilationLoss(z) ==
    LET infiltration(hs) ==
            RMax(RAdd(V_leak_ATD(hs), hs.V_open),
                 RSub(RMul(vzs[z].f_iz, V_min(hs)), V_tech(hs)))
        term(hs) ==
            RAdd(RAdd(RMul(infiltration(hs), RSub(T_ia(hs), hs.T_e_d)),
                      RMul(hs.V_sup, RSub(T_ia(hs), hs.T_sup))),
                 RMul(hs.V_trf, RSub(T_ia(hs), hs.T_trf)))
    IN  RMul(Rat(34, 100), SumOverSpaces(z, term))

\* the sum of the member spaces' own Q_ven
SpacesVentilationLoss(z) ==
    LET own(hs) == HS_Q_ven(hs)
    IN  SumOverSpaces(z, own)

\* C23: the Q_ven of every ventilation zone of the tree is 0.34 times the sum
\* over its member spaces of max(V_leak_ATD + V_open, f_iz * V_min - V_tech)
\* * (T_ia - T_e_d) + V_sup * (T_ia - T_sup) + V_trf * (T_ia - T_trf), with
\* the f_iz of the zone and the V_leak_ATD of each space
C23_ZoneQvenFormula == \A z \in TreeZones : VZ_Q_ven(z) = ZoneVentilationLoss(z)

\* a zone of the tree with member spaces whose Q_ven is a number other than
\* the sum of the spaces' own Q_ven
C23_Witness ==
    \E z \in TreeZones :
        /\ ZoneSpaces(z) # <<>>
        /\ IsNum(VZ_Q_ven(z))
        /\ IsNum(SpacesVentilationLoss(z))
        /\ VZ_Q_ven(z) # SpacesVentilationLoss(z)

(***************************************************************************)
(* Adding a building entity to a project that was opened                   *)
(***************************************************************************)
\* C24: when load has succeeded the building of the controller is the loaded
\* Building; an add_building_entity that follows it with no selection in
\* between puts the new entity into the loaded building, which stays the
\* building of the controller
C24_LoadedBuildingReceivesEntity ==
    [][/\ last'.op = "load" /\ steps' # steps /\ IsNone(last'.raised)
              => building' = Len(bus') /\ building' \notin 1..Len(bus)
       /\ \A name \in Names :
              last.op = "load" /\ IsNone(last.raised) /\ add_building_entity(name)
              => /\ building' = building
                 /\ bus'[building].building_entities[name] # 0]_vars

(***************************************************************************)
(* The selection and the tree                                              *)
(***************************************************************************)
\* C25: after every operation of the controller the selected object is the
\* building of the controller or a building entity, ventilation zone or
\* heated space that the building holds, so that the operation that follows
\* acts on a node of the tree
C25_SelectionStaysInTree == last.op # "init" => SelectionInTree

(***************************************************************************)
(* Renaming beside siblings                                                *)
(***************************************************************************)
\* the collection of its parent that holds the selected object
ParentCollection ==
    CASE cur_selection.kind = "HeatedSpace" ->
             hsdicts[vzs[hss[cur_selection.id].ventilation_zone].heated_spaces]
      [] cur_selection.kind = "VentilationZone" ->
             vzdicts[bes[vzs[cur_selection.id].building_entity].ventilation_zones]
      [] cur_selection.kind = "BuildingEntity" -> bus[building].building_entities
      [] cur_selection.kind = "Building" -> EmptyDict

\* C26: edit_name(new) with a building entity, ventilation zone or heated
\* space of the tree selected changes only the key and name of that object in
\* the collection of its parent: whatever the new name, also the name of a
\* sibling, every sibling is still there under its own name and the
\* collection has as many entries as before
C26_RenameKeepsSiblings ==
    [][\A name \in Names :
           edit_name(name) /\ cur_selection.kind # "Building" /\ SelectionInTree
           => /\ \A m \in DictKeys(ParentCollection) :
                     ParentCollection[m] # cur_selection.id
                     => ParentCollection'[m] = ParentCollection[m]
              /\ Cardinality(DictKeys(ParentCollection'))
                     = Cardinality(DictKeys(ParentCollection))]_vars

(***************************************************************************)
(* The temperature adjustment factor of recreated elements                 *)
(***************************************************************************)
\* the records the user gave for the elements of heated space hs
UserRecords(hs) ==
    IF AllElements(hs) = {} THEN <<>>
    ELSE IF Cardinality(AllElements(hs)) = 1 THEN BemRecords(1) ELSE BemRecords(2)

\* what space hs lists, per category, as the f1 and H of its elements
Factors(hs) ==
    [c \in CATEGORIES |->
        [k \in 1..Len(hs.building_elements[c]) |->
            [f1 |-> hs.building_elements[c][k].f1, H |-> hs.building_elements[c][k].H]]]

\* C27: f1 of an element whose record has no f1 is (T_i_d - T_adj) /
\* (T_i_d - T_e_d) with the temperatures of its space at construction: when
\* a heated space is modified through the dialog, which recreates it from
\* its own element records, the f1 and H of every recreated element are
\* those of an element built from the user's record under the new T_i_d and
\* the climate data of that moment
C27_RecreatedFactorRecomputed ==
    [][\A p \in ModifyInputs :
           HeatedSpaceForm_modify_heated_space(HSParams(p)) /\ SelectionInTree
           => LET old == hss[cur_selection.id]
                  fresh == NewHeatedSpace(old.ventilation_zone, old.name, HSParams(p),
                                          UserRecords(old))
              IN  /\ last'.raised = fresh.raised
                  /\ IsNone(fresh.raised)
                         => Factors(hss'[Len(hss')]) = Factors(fresh.hs)]_vars

(***************************************************************************)
(* The temperatures the building elements hold                             *)
(***************************************************************************)
\* C28: the T_i_d and T_e_d that a building element took at its construction
\* are the T_i_d and T_e_d of the heated space that owns it, and the T_adj of
\* a ground element is the T_e_an of that space, in every state, also after
\* update_climate_data
C28_ElementsFollowSpace ==
    \A h \in 1..Len(hss) : \A be \in AllElements(hss[h]) :
        /\ be.T_i_d = hss[h].T_i_d
        /\ be.T_e_d = hss[h].T_e_d
        /\ be.category = "ground" => be.T_adj = hss[h].T_e_an

(***************************************************************************)
(* Names and keys                                                          *)
(***************************************************************************)
\* C29: in every state reached through create, replace, rename and delete,
\* every entry of a building_entities, ventilation_zones or heated_spaces
\* mapping holds, under a key, an object whose name is that key
C29_NameIsKey ==
    /\ \A u \in 1..Len(bus) : \A n \in DictKeys(bus[u].building_entities) :
           bes[bus[u].building_entities[n]].name = n
    /\ \A d \in 1..Len(vzdicts) : \A n \in DictKeys(vzdicts[d]) :
           vzs[vzdicts[d][n]].name = n
    /\ \A d \in 1..Len(hsdicts) : \A n \in DictKeys(hsdicts[d]) :
           hss[hsdicts[d][n]].name = n

\* a ventilation zone that replaced the selected one has just been renamed:
\* the tree holds it under a name that the replaced zone, whose heated
\* spaces it took over, does not have
C29_Witness ==
    /\ last = Ran("edit_name", None)
    /\ cur_selection.kind = "VentilationZone"
    /\ \E z \in TreeZones :
           /\ z # cur_selection.id
           /\ vzs[z].heated_spaces = vzs[cur_selection.id].heated_spaces
           /\ vzs[z].name # vzs[cur_selection.id].name

(***************************************************************************)
(* Opening what was saved                                                  *)
(***************************************************************************)
\* C30: a file name that save accepts for a project file is accepted by
\* load: when save has written the building, the load of the file it wrote
\* returns a Building and does not raise
C30_SavedNameLoads ==
    [][last.op = "save" /\ IsNone(last.raised) /\ load(last.written, "Building")
          => IsNone(last'.raised) /\ building' = Len(bus')]_vars

====
